---- MODULE Spec2Model ----
(***************************************************************************)
(* Model of the PIV token transaction / PIN state machine and of the APDU  *)
(* chaining transport of piv.c.                                            *)
(*                                                                         *)
(* Two specifications share the module:                                    *)
(*   Spec      - one token: piv_txn_begin / piv_txn_end and the protocol   *)
(*               operations that run inside a transaction.  A call of      *)
(*               piv_apdu_transceive_chain is represented by its outcome   *)
(*               (reader error, or the final status word).                 *)
(*   SpecChain - one call of piv_apdu_transceive_chain, one step per       *)
(*               piv_apdu_transceive exchange, with the card's replies     *)
(*               chosen nondeterministically.                              *)
(***************************************************************************)
EXTENDS Integers, Naturals, Sequences, FiniteSets, TLC

VARIABLES
    \* ---- struct piv_token (Spec) ----
    pt_intxn,       \* pt_intxn
    pt_reset,       \* pt_reset
    aborted,        \* a VERIFY() failed: the process has aborted
    t_pc,           \* "idle", or "txn_begin" inside piv_txn_begin's retry loop
    nBeginTxn,      \* SCardBeginTransaction calls made by the current piv_txn_begin
    nResetSeen,     \* SCARD_W_RESET_CARD results seen by the current piv_txn_begin
    nReconnect,     \* SCardReconnect calls made by the current piv_txn_begin
    nReconnectOk,   \* ... of which returned SCARD_S_SUCCESS
    lastOp,         \* name of the operation that ran last
    lastErr,        \* its result: "OK" or the error kind, "" while running
    lastDisp,       \* disposition piv_txn_end gave to SCardEndTransaction
    lastRv,         \* result of the last SCard* transaction call, "" otherwise
    lastRetries,    \* value left in *retries by piv_verify_pin (NoRetries: no pointer)
    lastApdus,      \* the APDU exchanges (chain calls) made by the last operation
    txOutside,      \* some APDU was transmitted while pt_intxn was false
    heldTxn,        \* a piv_txn_begin succeeded and no piv_txn_end followed yet
    txnHist,        \* what succeeded since the matching piv_txn_begin
    \* ---- struct apdu and locals of piv_apdu_transceive_chain (SpecChain) ----
    c_pc,           \* "idle", "call", "cmd", "again", "resp", "ret"
    c_rv,           \* return value: "none", "OK", "IOError", "abort"
    cmdN,           \* length of the caller's command body (a_cmd.b_len at entry)
    a_cls, a_ins, a_p1, a_p2, a_le, a_sw,
    cmd_data,       \* a_cmd.b_data != NULL
    cmd_off,        \* a_cmd.b_offset
    cmd_len,        \* a_cmd.b_len
    rep_data,       \* a_reply.b_data[0 .. b_offset + b_len), <<>> before allocation
    rep_alloc,      \* a_reply.b_data != NULL
    rep_off,        \* a_reply.b_offset
    rep_len,        \* a_reply.b_len
    rep_size,       \* a_reply.b_size
    rem,            \* local rem
    offset,         \* local offset
    gotok,          \* local gotok
    wire,           \* the buffer handed to the last SCardTransmit
    prevWire,       \* the buffer handed to the SCardTransmit before that
    nSent,          \* SCardTransmit calls of this chain call
    nCmdSent,       \* ... of which were command fragments
    nGetResp,       \* ... of which were GET RESPONSE
    n6C,            \* 6Cxx answers received in the command phase
    all9000,        \* every command fragment so far was answered 9000
    respAcc,        \* response bodies since the last send of the final fragment
    respSws,        \* status words since the last send of the final fragment
    swRaw,          \* status word of the last reply as received
    lastLen,        \* body length of the last reply
    sentOff,        \* a_cmd.b_offset of the command fragment sent last
    retFrom,        \* where the call returned from: "", "cmd", "resp", "end"
    \* ---- arguments and card answers of the last piv_verify_pin (SpecPin) ----
    vp_call,        \* [pin, retries, canskip, r1, r2], NoVerifyCall before any
    \* ---- piv_enumerate / piv_find (SpecEnum) ----
    e_fn,           \* "", "piv_enumerate" or "piv_find"
    e_pc,           \* "idle", "loop", "post", "ret"
    e_n,            \* number of readers SCardListReaders returned
    e_rdr,          \* index of the reader thisrdr points at
    e_ks,           \* piv_enumerate: the list ks, newest token first
    e_found,        \* piv_find: the token found, NoToken while NULL
    e_rv,           \* the error kind returned, "" while running
    e_out,          \* what *tokens / *token was set to
    e_prefix,       \* piv_find: the guidlen bytes at guid
    e_seen,         \* per reader visited: how far it got and the token's GUID
    \* ---- one read of a data object (SpecRead) ----
    rd_in,          \* [obj, r, c]: the object, the chain call's outcome, the reply
    rd_out,         \* [err, guid] once the read has returned, NoRead before
    \* ---- the token's slot list (SpecCert) ----
    pt_slots,       \* slot id -> [present, ps_slot, pin]: the entries of pt_slots
    pt_hist_oncard, \* number of retired slots the Key History object reports
    pt_did_read_all,
    rc_last,        \* the last piv_read_cert call: slot, whether the entry
                    \* existed, the reply, the error returned
    ra_pc,          \* piv_read_all_certs: index of the slot read next, 0 outside
    ra_rv,          \* piv_read_all_certs: the error returned
    \* ---- one struct piv_ecdh_box (SpecBox) ----
    box,            \* pdb_plain, pdb_enc, pdb_guidslot_valid and whether the
                    \* buffer pdb_plain.b_data points to is allocated
    bx_last,        \* the last box operation: name, error, data handed out
                    \* and the box before the call
    \* ---- a box written to and read from its binary form (SpecBin) ----
    bn,             \* [pc, src, box, bytes, dec]
    \* ---- piv_box_find_token over a pool of tokens (SpecBoxFind) ----
    ft,             \* [pc, i, slotid, pool, toks, box, res]; pool is the
                    \* pool as it was handed in
    \* ---- piv_sign on a slot (SpecSign) ----
    sg,             \* [pc, ps_alg, before, call, res]
    \* ---- the slot list of a token, entry by entry (SpecSlots) ----
    sl,             \* [pt_slots, nalloc, seen, n, last]
    \* ---- piv_apdu_transceive_chain by lengths and offsets only (SpecRun) ----
    rn              \* [pc, rv, a_sw, a_le, rem, cmd_len, b_alloc, b_off,
                    \*  b_len, b_size, offset, gotok, recv, verify]

tokVars == <<pt_intxn, pt_reset, aborted, t_pc, nBeginTxn, nResetSeen,
             nReconnect, nReconnectOk, lastOp, lastErr, lastDisp,
             lastRv, lastRetries, lastApdus, txOutside, heldTxn, txnHist>>

chainVars == <<c_pc, c_rv, cmdN, a_cls, a_ins, a_p1, a_p2, a_le, a_sw,
               cmd_data, cmd_off, cmd_len, rep_data, rep_alloc, rep_off,
               rep_len, rep_size, rem, offset, gotok, wire, prevWire, nSent,
               nCmdSent, nGetResp, n6C, all9000, respAcc, respSws, swRaw,
               lastLen, sentOff, retFrom>>

pinVars == <<vp_call>>

\* state of the parts that the transaction machine (Spec) does not look at
enumVars == <<e_fn, e_pc, e_n, e_rdr, e_ks, e_found, e_rv, e_out, e_prefix,
              e_seen>>

readVars == <<rd_in, rd_out>>

certVars == <<pt_slots, pt_hist_oncard, pt_did_read_all, rc_last, ra_pc, ra_rv>>

boxVars == <<box, bx_last>>

\* the variables of the remaining operations
restVars == <<bn, ft, sg, sl, rn>>

auxVars == <<pinVars, enumVars, readVars, certVars, boxVars, restVars>>

\* what each group of operations leaves alone
exceptPin == <<chainVars, enumVars, readVars, certVars, boxVars, restVars>>
exceptEnum == <<tokVars, chainVars, pinVars, readVars, certVars, boxVars, restVars>>
exceptRead == <<tokVars, chainVars, pinVars, enumVars, certVars, boxVars, restVars>>
exceptCert == <<tokVars, chainVars, pinVars, enumVars, readVars, boxVars,
               restVars>>
exceptBox == <<chainVars, pinVars, enumVars, readVars, certVars, restVars>>
exceptRest == <<tokVars, chainVars, pinVars, enumVars, readVars, certVars,
               boxVars>>
exceptBin == <<exceptRest, ft, sg, sl, rn>>
exceptFind == <<exceptRest, bn, sg, sl, rn>>
exceptSign == <<exceptRest, bn, ft, sl, rn>>
exceptSlots == <<exceptRest, bn, ft, sg, rn>>
exceptRun == <<exceptRest, bn, ft, sg, sl>>

vars == <<tokVars, chainVars, auxVars>>

----------------------------------------------------------------------------
(* Bounds of the model *)

\* reader-reset statuses the reader may report to one piv_txn_begin
MaxResets == 3
\* 6Cxx answers the card may give during one chain call
MaxRetry == 1
\* GET RESPONSE exchanges the card may ask for during one chain call
MaxGetResp == 2
\* largest *retries value a caller passes in
MaxRetriesIn == 2
\* length of the longest command body handed to a chain call
LongCmdLen == 4096
\* readers SCardListReaders may return
MaxReaders == 2

----------------------------------------------------------------------------
(* ISO 7816 / PIV constants (header values) *)

CLA_ISO == 0
CLA_CHAIN == 16
INS_CONTINUE == 192
INS_VERIFY == 32
INS_PUT_DATA == 219
SW_NO_ERROR == 36864
SW_BYTES_REMAINING_00 == 24832
SW_CORRECT_LE_00 == 27648
SW_WARNING_NO_CHANGE_00 == 25088
SW_WARNING_00 == 25344
SW_INCORRECT_PIN == 25536
SW_WRONG_LENGTH == 26368
SW_WRONG_DATA == 27264
SW_FUNC_NOT_SUPPORTED == 27265
SW_FILE_NOT_FOUND == 27266
SW_OUT_OF_MEMORY == 27268
SW_INCORRECT_P1P2 == 27270
SW_SECURITY_STATUS_NOT_SATISFIED == 27010
SW_FILE_INVALID == 27011
SW_CONDITIONS_NOT_SATISFIED == 27013
SW_INS_NOT_SUP == 27904
MAX_APDU_SIZE == 16384
GUID_LEN == 16

\* sw & 0xFF00, sw & 0x00FF, sw & 0xFFF0, sw & 0x000F
SwHi(sw) == (sw \div 256) * 256
SwLo(sw) == sw % 256
SwHi12(sw) == (sw \div 16) * 16
SwLo4(sw) == sw % 16

NoRetries == -1

----------------------------------------------------------------------------
(* Outcomes of the reader and of a chain call, as seen by the callers *)

\* piv_apdu_transceive_chain returns an error (io) or ERRF_OK with a_sw = sw,
\* sw drawn from the status words S the card may answer
ChainResults(S) == {[io |-> TRUE, sw |-> 0]} \cup
                   {[io |-> FALSE, sw |-> s] : s \in S}

\* placeholder outcome for a chain call that the operation does not make
NoCall == [io |-> TRUE, sw |-> 0]

\* the card's answers to the empty VERIFY and to the PIN-bearing VERIFY
QuerySw == {SW_NO_ERROR, SW_INCORRECT_PIN + 1, SW_INCORRECT_PIN + 2,
            SW_INCORRECT_PIN + 3, SW_WRONG_LENGTH, SW_WRONG_DATA,
            SW_SECURITY_STATUS_NOT_SATISFIED}
PinSw == {SW_NO_ERROR, SW_INCORRECT_PIN + 1, SW_INCORRECT_PIN + 2,
          SW_FILE_INVALID, SW_SECURITY_STATUS_NOT_SATISFIED}
\* ... to the two GENERAL AUTHENTICATE commands of piv_auth_admin
AdminSw == {SW_NO_ERROR, SW_INCORRECT_P1P2, SW_WRONG_DATA,
            SW_SECURITY_STATUS_NOT_SATISFIED, SW_WRONG_LENGTH}
\* ... to the other commands
OtherSw == {SW_NO_ERROR, SW_WARNING_NO_CHANGE_00 + 130, SW_OUT_OF_MEMORY,
            SW_SECURITY_STATUS_NOT_SATISFIED, SW_FUNC_NOT_SUPPORTED,
            SW_INS_NOT_SUP}

\* results of SCardBeginTransaction / SCardReconnect / SCardEndTransaction
ScardRv == {"SCARD_S_SUCCESS", "SCARD_W_RESET_CARD", "SCARD_E_OTHER"}

\* VERIFY(pt_intxn == B_TRUE): made by piv_apdu_transceive before it builds and
\* transmits the APDU, by piv_apdu_transceive_chain and by every protocol
\* operation at its head
VerifyInTxnMut(intxn) == TRUE
VerifyInTxn(intxn) == intxn = TRUE

\* one SCardTransmit (or more) is made by the running operation
Transmitted(n) == txOutside' = (txOutside \/ (n > 0 /\ ~pt_intxn))

TokIdle == ~aborted /\ t_pc = "idle"

\* a failed VERIFY aborts the process; nothing is transmitted
Abort(op, apdus) ==
    /\ aborted' = TRUE
    /\ lastOp' = op
    /\ lastErr' = "abort"
    /\ lastApdus' = apdus
    /\ UNCHANGED <<pt_intxn, pt_reset, t_pc, nBeginTxn, nResetSeen, nReconnect,
                   nReconnectOk, lastDisp, lastRv, lastRetries, txOutside,
                   heldTxn, txnHist>>

\* common tail of a protocol operation that ran to its return
OpDone(op, err, apdus, reset, retries, tags) ==
    /\ lastOp' = op
    /\ lastErr' = err
    /\ lastApdus' = apdus
    /\ lastRetries' = retries
    /\ pt_reset' = (pt_reset \/ reset)
    /\ txnHist' = txnHist \cup tags
    /\ Transmitted(Len(apdus))
    /\ nBeginTxn' = 0 /\ nResetSeen' = 0 /\ nReconnect' = 0 /\ nReconnectOk' = 0
    /\ lastDisp' = "none"
    /\ lastRv' = ""
    /\ UNCHANGED <<pt_intxn, aborted, t_pc, heldTxn>>

----------------------------------------------------------------------------
(* piv_txn_begin / piv_txn_end *)

\* entry of piv_txn_begin: VERIFY(pt_intxn == B_FALSE), then label retry
piv_txn_begin ==
    /\ TokIdle
    /\ IF pt_intxn # FALSE
       THEN Abort("piv_txn_begin", <<>>)
       ELSE /\ t_pc' = "txn_begin"
            /\ nBeginTxn' = 0
            /\ nResetSeen' = 0
            /\ nReconnect' = 0
            /\ nReconnectOk' = 0
            /\ lastOp' = "piv_txn_begin"
            /\ lastErr' = ""
            /\ lastApdus' = <<>>
            /\ lastRetries' = NoRetries
            /\ lastDisp' = "none"
            /\ lastRv' = ""
            /\ txnHist' = {}
            /\ UNCHANGED <<pt_intxn, pt_reset, aborted, txOutside, heldTxn>>

\* what piv_txn_begin does with the result rv of SCardBeginTransaction and,
\* after a reset, the result rrv of SCardReconnect: "retry", "fail" or "ok"
TxnBeginStepMut(rv, rrv) ==
    IF rv = "SCARD_W_RESET_CARD"
    THEN "retry"
    ELSE IF rv # "SCARD_S_SUCCESS" THEN "fail" ELSE "ok"
TxnBeginStep(rv, rrv) ==
    IF rv = "SCARD_W_RESET_CARD"
    THEN IF rrv = "SCARD_S_SUCCESS" THEN "retry" ELSE "fail"
    ELSE IF rv # "SCARD_S_SUCCESS" THEN "fail" ELSE "ok"

\* one pass through the retry label of piv_txn_begin
piv_txn_begin_retry(rv, rrv) ==
    /\ ~aborted
    /\ t_pc = "txn_begin"
    /\ rv = "SCARD_W_RESET_CARD" => nResetSeen < MaxResets
    /\ rrv # "SCARD_W_RESET_CARD"
    /\ nBeginTxn' = nBeginTxn + 1
    /\ nResetSeen' = nResetSeen + (IF rv = "SCARD_W_RESET_CARD" THEN 1 ELSE 0)
    /\ nReconnect' = nReconnect + (IF rv = "SCARD_W_RESET_CARD" THEN 1 ELSE 0)
    /\ nReconnectOk' = nReconnectOk +
           (IF rv = "SCARD_W_RESET_CARD" /\ rrv = "SCARD_S_SUCCESS" THEN 1 ELSE 0)
    /\ LET step == TxnBeginStep(rv, rrv) IN
        /\ t_pc' = IF step = "retry" THEN "txn_begin" ELSE "idle"
        /\ pt_intxn' = IF step = "ok" THEN TRUE ELSE pt_intxn
        /\ heldTxn' = IF rv = "SCARD_S_SUCCESS" THEN TRUE ELSE heldTxn
        /\ txnHist' = txnHist
        /\ lastErr' = CASE step = "retry" -> ""
                        [] step = "ok" -> "OK"
                        [] OTHER -> "IOError"
    /\ lastRv' = IF rv = "SCARD_W_RESET_CARD" THEN rrv ELSE rv
    /\ UNCHANGED <<pt_reset, aborted, lastOp, lastDisp, lastRetries, lastApdus,
                   txOutside>>

\* the disposition piv_txn_end passes to SCardEndTransaction
EndDispositionMut(reset) == "SCARD_LEAVE_CARD"
EndDisposition(reset) == IF reset THEN "SCARD_RESET_CARD" ELSE "SCARD_LEAVE_CARD"

\* piv_txn_end; rv is the result of SCardEndTransaction (only logged)
piv_txn_end(rv) ==
    /\ TokIdle
    /\ rv # "SCARD_W_RESET_CARD"
    /\ IF pt_intxn # TRUE
       THEN Abort("piv_txn_end", <<>>)
       ELSE /\ lastDisp' = EndDisposition(pt_reset)
            /\ pt_intxn' = FALSE
            /\ pt_reset' = FALSE
            /\ heldTxn' = FALSE
            /\ lastOp' = "piv_txn_end"
            /\ lastErr' = "OK"
            /\ lastApdus' = <<>>
            /\ lastRetries' = NoRetries
            /\ lastRv' = rv
            /\ nBeginTxn' = 0 /\ nResetSeen' = 0 /\ nReconnect' = 0
            /\ nReconnectOk' = 0
            /\ UNCHANGED <<aborted, t_pc, txOutside, txnHist>>

----------------------------------------------------------------------------
(* PIN operations *)

PinArgs == {"NULL", "pin", "badlen"}

\* piv_verify_pin as a function of its arguments and of the card's answers:
\* pin ("NULL": no PIN, "pin": 1-8 chars, "badlen": any other length),
\* retries (NoRetries: retries == NULL, else *retries at entry), canskip,
\* r1 the outcome of the empty VERIFY, r2 the outcome of the PIN VERIFY.
\* Result: err, ret (*retries at return), reset (pt_reset was set),
\* apdus (the VERIFY commands exchanged).
\* *retries after the status query answered 63Cx with no PIN given, and after
\* the PIN VERIFY answered 6983 (if (retries != NULL) *retries = ...)
QueryRetriesMut(hasRet, x, ret0) == ret0
QueryRetries(hasRet, x, ret0) == IF hasRet THEN x ELSE ret0
BlockedRetriesMut(hasRet, ret0) == ret0
BlockedRetries(hasRet, ret0) == IF hasRet THEN 0 ELSE ret0

VerifyPinAttemptMut(hasRet, retOut, apdus, pin, r2) ==
    LET sent == Append(apdus, "VERIFY_PIN") IN
    IF pin = "badlen" THEN
        [err |-> "ArgumentError", ret |-> retOut, reset |-> FALSE, apdus |-> apdus]
    ELSE IF r2.io THEN
        [err |-> "IOError", ret |-> retOut, reset |-> FALSE, apdus |-> sent]
    ELSE IF r2.sw = SW_NO_ERROR THEN
        [err |-> "OK", ret |-> retOut, reset |-> FALSE, apdus |-> sent]
    ELSE IF r2.sw = SW_FILE_INVALID THEN
        [err |-> "PermissionError", ret |-> BlockedRetries(hasRet, retOut),
         reset |-> FALSE, apdus |-> sent]
    ELSE IF SwHi12(r2.sw) = SW_INCORRECT_PIN THEN
        [err |-> "PermissionError",
         ret |-> IF hasRet THEN SwLo4(r2.sw) ELSE retOut,
         reset |-> FALSE, apdus |-> sent]
    ELSE
        [err |-> "APDUError", ret |-> retOut, reset |-> FALSE, apdus |-> sent]
VerifyPinAttempt(hasRet, retOut, apdus, pin, r2) ==
    LET sent == Append(apdus, "VERIFY_PIN") IN
    IF pin = "badlen" THEN
        [err |-> "ArgumentError", ret |-> retOut, reset |-> FALSE, apdus |-> apdus]
    ELSE IF r2.io THEN
        [err |-> "IOError", ret |-> retOut, reset |-> FALSE, apdus |-> sent]
    ELSE IF r2.sw = SW_NO_ERROR THEN
        [err |-> "OK", ret |-> retOut, reset |-> TRUE, apdus |-> sent]
    ELSE IF r2.sw = SW_FILE_INVALID THEN
        [err |-> "PermissionError", ret |-> BlockedRetries(hasRet, retOut),
         reset |-> FALSE, apdus |-> sent]
    ELSE IF SwHi12(r2.sw) = SW_INCORRECT_PIN THEN
        [err |-> "PermissionError",
         ret |-> IF hasRet THEN SwLo4(r2.sw) ELSE retOut,
         reset |-> FALSE, apdus |-> sent]
    ELSE
        [err |-> "APDUError", ret |-> retOut, reset |-> FALSE, apdus |-> sent]

\* the answers of an applet without the empty VERIFY
NoEmptyVerifyMut(sw) == sw = SW_WRONG_LENGTH
NoEmptyVerify(sw) == sw = SW_WRONG_LENGTH \/ sw = SW_WRONG_DATA

\* The status word quoted in the cause of the NotSupportedError: the call
\* frees the APDU and then reads its a_sw, which is the status received or
\* whatever the freed memory holds by then.
FreedSw(pin, r1) ==
    IF pin = "NULL" /\ ~r1.io /\ NoEmptyVerify(r1.sw)
    THEN {r1.sw, 0, 65535} ELSE {r1.sw}

\* whether piv_verify_pin starts with the empty VERIFY
WantsQueryMut(pin, retries, canskip) ==
    pin = "NULL" \/ canskip \/ retries # NoRetries
WantsQuery(pin, retries, canskip) ==
    pin = "NULL" \/ canskip \/ (retries # NoRetries /\ retries > 0)

VerifyPin(pin, retries, canskip, r1, r2) ==
    LET hasRet == retries # NoRetries
        retIn == retries
        ret0 == retries
        q == <<"VERIFY_EMPTY">>
        Ret(e, r) == [err |-> e, ret |-> r, reset |-> FALSE, apdus |-> q]
    IN
    IF WantsQuery(pin, retries, canskip) THEN
        IF r1.io THEN Ret("IOError", ret0)
        ELSE IF SwHi12(r1.sw) = SW_INCORRECT_PIN THEN
            IF pin # "NULL" /\ hasRet /\ retIn > 0 /\ SwLo4(r1.sw) <= retIn
            THEN Ret("MinRetriesError", SwLo4(r1.sw))
            ELSE IF pin = "NULL"
            THEN Ret("OK", QueryRetries(hasRet, SwLo4(r1.sw), ret0))
            ELSE VerifyPinAttempt(hasRet, ret0, q, pin, r2)
        ELSE IF NoEmptyVerify(r1.sw) THEN
            IF pin = "NULL"
            THEN Ret("NotSupportedError", ret0)
            ELSE VerifyPinAttempt(hasRet, ret0, q, pin, r2)
        ELSE IF r1.sw = SW_NO_ERROR THEN
            IF pin = "NULL" THEN Ret("OK", ret0)
            ELSE IF canskip THEN Ret("OK", ret0)
            ELSE VerifyPinAttempt(hasRet, ret0, q, pin, r2)
        ELSE Ret("APDUError", ret0)
    ELSE VerifyPinAttempt(hasRet, ret0, <<>>, pin, r2)

\* the PIN-bearing VERIFY is exchanged (whatever its outcome will be)
VerifyPinSends(pin, retries, canskip, r1) ==
    LET a == VerifyPin(pin, retries, canskip, r1, NoCall).apdus IN
    Len(a) > 0 /\ a[Len(a)] = "VERIFY_PIN"

piv_verify_pin(pin, retries, canskip, r1, r2) ==
    /\ TokIdle
    /\ IF ~VerifyInTxn(pt_intxn)
       THEN Abort("piv_verify_pin", <<>>)
       ELSE LET r == VerifyPin(pin, retries, canskip, r1, r2) IN
            OpDone("piv_verify_pin", r.err, r.apdus, r.reset, r.ret,
                   (IF pin # "NULL" /\ r.err = "OK" THEN {"verify_pin_ok"} ELSE {})
                   \cup (IF VerifyPinSends(pin, retries, canskip, r1)
                            /\ ~r2.io /\ r2.sw = SW_NO_ERROR
                         THEN {"pin_accepted"} ELSE {}))

\* piv_change_pin (ins = "CHANGE_PIN") and piv_reset_pin (ins = "RESET_PIN"):
\* argsOk is the 1-8 character check on both strings, r the chain call's outcome
ChangePin(ins, argsOk, r) ==
    IF ~argsOk THEN [err |-> "ArgumentError", reset |-> FALSE, apdus |-> <<>>]
    ELSE IF r.io THEN [err |-> "IOError", reset |-> FALSE, apdus |-> <<ins>>]
    ELSE IF r.sw = SW_NO_ERROR
    THEN [err |-> "OK", reset |-> TRUE, apdus |-> <<ins>>]
    ELSE IF SwHi12(r.sw) = SW_INCORRECT_PIN
    THEN [err |-> "PermissionError", reset |-> FALSE, apdus |-> <<ins>>]
    ELSE IF ins = "RESET_PIN" /\ r.sw = SW_FILE_INVALID
    THEN [err |-> "PermissionError", reset |-> FALSE, apdus |-> <<ins>>]
    ELSE [err |-> "APDUError", reset |-> FALSE, apdus |-> <<ins>>]

piv_change_pin(argsOk, r) ==
    /\ TokIdle
    /\ IF ~VerifyInTxn(pt_intxn)
       THEN Abort("piv_change_pin", <<>>)
       ELSE LET x == ChangePin("CHANGE_PIN", argsOk, r) IN
            OpDone("piv_change_pin", x.err, x.apdus, x.reset, NoRetries,
                   IF x.err = "OK" THEN {"pin_changed_ok"} ELSE {})

piv_reset_pin(argsOk, r) ==
    /\ TokIdle
    /\ IF ~VerifyInTxn(pt_intxn)
       THEN Abort("piv_reset_pin", <<>>)
       ELSE LET x == ChangePin("RESET_PIN", argsOk, r) IN
            OpDone("piv_reset_pin", x.err, x.apdus, x.reset, NoRetries,
                   IF x.err = "OK" THEN {"pin_changed_ok"} ELSE {})

----------------------------------------------------------------------------
(* Admin authentication and the other protocol operations *)

\* piv_auth_admin: argsOk is the key algorithm / key length check, r1 the
\* outcome of the challenge request, chal the result of reading the challenge
\* ("ok"; "invalid": TLV error; "nochal": no challenge tag, VERIFY(chal != NULL)
\* fails; "badlen": not one cipher block), r2 the outcome of the response.
\* pt_reset is set once the response has been built, before it is sent.
AuthAdminMut(argsOk, r1, chal, r2) ==
    LET c == <<"GEN_AUTH_CHALLENGE">>
        cr == <<"GEN_AUTH_CHALLENGE", "GEN_AUTH_RESPONSE">>
        R(e, rst, a) == [err |-> e, reset |-> rst, apdus |-> a]
    IN
    IF ~argsOk THEN R("ArgumentError", FALSE, <<>>)
    ELSE IF r1.io THEN R("IOError", FALSE, c)
    ELSE IF r1.sw = SW_INCORRECT_P1P2 THEN R("NotFoundError", FALSE, c)
    ELSE IF r1.sw = SW_WRONG_DATA \/ r1.sw = SW_SECURITY_STATUS_NOT_SATISFIED
    THEN R("PermissionError", FALSE, c)
    ELSE IF r1.sw # SW_NO_ERROR THEN R("NotSupportedError", FALSE, c)
    ELSE IF chal = "invalid" THEN R("InvalidDataError", FALSE, c)
    ELSE IF chal = "nochal" THEN R("abort", FALSE, c)
    ELSE IF chal = "badlen" THEN R("InvalidDataError", FALSE, c)
    ELSE IF r2.io THEN R("IOError", FALSE, cr)
    ELSE IF r2.sw = SW_NO_ERROR THEN R("OK", FALSE, cr)
    ELSE IF r2.sw = SW_INCORRECT_P1P2 THEN R("NotFoundError", FALSE, cr)
    ELSE IF r2.sw = SW_WRONG_DATA \/ r2.sw = SW_SECURITY_STATUS_NOT_SATISFIED
    THEN R("PermissionError", FALSE, cr)
    ELSE R("APDUError", FALSE, cr)
AuthAdmin(argsOk, r1, chal, r2) ==
    LET c == <<"GEN_AUTH_CHALLENGE">>
        cr == <<"GEN_AUTH_CHALLENGE", "GEN_AUTH_RESPONSE">>
        R(e, rst, a) == [err |-> e, reset |-> rst, apdus |-> a]
    IN
    IF ~argsOk THEN R("ArgumentError", FALSE, <<>>)
    ELSE IF r1.io THEN R("IOError", FALSE, c)
    ELSE IF r1.sw = SW_INCORRECT_P1P2 THEN R("NotFoundError", FALSE, c)
    ELSE IF r1.sw = SW_WRONG_DATA \/ r1.sw = SW_SECURITY_STATUS_NOT_SATISFIED
    THEN R("PermissionError", FALSE, c)
    ELSE IF r1.sw # SW_NO_ERROR THEN R("NotSupportedError", FALSE, c)
    ELSE IF chal = "invalid" THEN R("InvalidDataError", FALSE, c)
    ELSE IF chal = "nochal" THEN R("abort", FALSE, c)
    ELSE IF chal = "badlen" THEN R("InvalidDataError", FALSE, c)
    ELSE IF r2.io THEN R("IOError", TRUE, cr)
    ELSE IF r2.sw = SW_NO_ERROR THEN R("OK", TRUE, cr)
    ELSE IF r2.sw = SW_INCORRECT_P1P2 THEN R("NotFoundError", TRUE, cr)
    ELSE IF r2.sw = SW_WRONG_DATA \/ r2.sw = SW_SECURITY_STATUS_NOT_SATISFIED
    THEN R("PermissionError", TRUE, cr)
    ELSE R("APDUError", TRUE, cr)

ChalResults == {"ok", "invalid", "nochal", "badlen"}

\* the response command is exchanged (whatever its outcome will be)
AuthAdminSends(argsOk, r1, chal) ==
    Len(AuthAdmin(argsOk, r1, chal, NoCall).apdus) = 2

piv_auth_admin(argsOk, r1, chal, r2) ==
    /\ TokIdle
    /\ IF ~VerifyInTxn(pt_intxn)
       THEN Abort("piv_auth_admin", <<>>)
       ELSE LET x == AuthAdmin(argsOk, r1, chal, r2) IN
            IF x.err = "abort"
            THEN Abort("piv_auth_admin", x.apdus)
            ELSE OpDone("piv_auth_admin", x.err, x.apdus, x.reset, NoRetries,
                        (IF x.err = "OK" THEN {"auth_admin_ok"} ELSE {})
                        \cup (IF Len(x.apdus) = 2
                              THEN {"auth_admin_response"} ELSE {}))

\* piv_write_file (also reached through piv_write_cert and
\* piv_write_keyhistory) and ykpiv_import: status word to error
WriteErr(r) ==
    IF r.io THEN "IOError"
    ELSE IF r.sw = SW_NO_ERROR THEN "OK"
    ELSE IF r.sw = SW_OUT_OF_MEMORY THEN "DeviceOutOfMemoryError"
    ELSE IF r.sw = SW_SECURITY_STATUS_NOT_SATISFIED THEN "PermissionError"
    ELSE IF r.sw = SW_FUNC_NOT_SUPPORTED THEN "NotSupportedError"
    ELSE "APDUError"

piv_write_file(r) ==
    /\ TokIdle
    /\ IF ~VerifyInTxn(pt_intxn)
       THEN Abort("piv_write_file", <<>>)
       ELSE OpDone("piv_write_file", WriteErr(r), <<"PUT_DATA">>, FALSE,
                   NoRetries, IF WriteErr(r) = "OK" THEN {"mutate_ok"} ELSE {})

ykpiv_import(argsOk, r) ==
    /\ TokIdle
    /\ IF ~VerifyInTxn(pt_intxn)
       THEN Abort("ykpiv_import", <<>>)
       ELSE IF ~argsOk
       THEN OpDone("ykpiv_import", "ArgumentError", <<>>, FALSE, NoRetries, {})
       ELSE OpDone("ykpiv_import", WriteErr(r), <<"IMPORT_ASYM">>, FALSE,
                   NoRetries, IF WriteErr(r) = "OK" THEN {"mutate_ok"} ELSE {})

\* piv_generate_common, piv_sign_prehash, piv_ecdh, piv_read_file: the reply is
\* parsed when the status is 9000, 62xx or 63xx
ReplyErr(r, parseOk) ==
    IF r.io THEN "IOError"
    ELSE IF r.sw = SW_NO_ERROR \/ SwHi(r.sw) = SW_WARNING_NO_CHANGE_00
                               \/ SwHi(r.sw) = SW_WARNING_00
    THEN IF parseOk THEN "OK" ELSE "InvalidDataError"
    ELSE IF r.sw = SW_SECURITY_STATUS_NOT_SATISFIED THEN "PermissionError"
    ELSE "APDUError"

piv_generate(r, parseOk) ==
    /\ TokIdle
    /\ IF ~VerifyInTxn(pt_intxn)
       THEN Abort("piv_generate", <<>>)
       ELSE OpDone("piv_generate", ReplyErr(r, parseOk), <<"GEN_ASYM">>, FALSE,
                   NoRetries,
                   IF ReplyErr(r, parseOk) = "OK" THEN {"mutate_ok"} ELSE {})

\* operations that neither authenticate nor change the card
ReadOps == {"piv_select", "piv_read_file", "piv_read_cert", "piv_sign_prehash",
            "piv_ecdh"}

piv_read_op(op, r, parseOk) ==
    /\ TokIdle
    /\ IF ~VerifyInTxn(pt_intxn)
       THEN Abort(op, <<>>)
       ELSE OpDone(op, ReplyErr(r, parseOk), <<op>>, FALSE, NoRetries, {})

\* ykpiv_reset, ykpiv_set_pin_retries, ykpiv_set_admin
YkOps == {"ykpiv_reset", "ykpiv_set_pin_retries", "ykpiv_set_admin"}

YkErr(r) ==
    IF r.io THEN "IOError"
    ELSE IF r.sw = SW_NO_ERROR THEN "OK"
    ELSE IF r.sw = SW_SECURITY_STATUS_NOT_SATISFIED THEN "PermissionError"
    ELSE IF r.sw = SW_INS_NOT_SUP THEN "NotSupportedError"
    ELSE "APDUError"

ykpiv_op(op, isYk, r) ==
    /\ TokIdle
    /\ IF ~VerifyInTxn(pt_intxn)
       THEN Abort(op, <<>>)
       ELSE IF ~isYk
       THEN OpDone(op, "ArgumentError", <<>>, FALSE, NoRetries, {})
       ELSE OpDone(op, YkErr(r), <<op>>, YkErr(r) = "OK", NoRetries,
                   IF YkErr(r) = "OK" THEN {"yk_ok"} ELSE {})

----------------------------------------------------------------------------
(* The token specification *)

ChainInit ==
    /\ c_pc = "idle" /\ c_rv = "none" /\ cmdN = 0
    /\ a_cls = 0 /\ a_ins = 0 /\ a_p1 = 0 /\ a_p2 = 0 /\ a_le = 0 /\ a_sw = 0
    /\ cmd_data = FALSE /\ cmd_off = 0 /\ cmd_len = 0
    /\ rep_data = <<>> /\ rep_alloc = FALSE /\ rep_off = 0 /\ rep_len = 0
    /\ rep_size = 0
    /\ rem = 0 /\ offset = 0 /\ gotok = FALSE
    /\ wire = <<>> /\ prevWire = <<>> /\ nSent = 0 /\ nCmdSent = 0
    /\ nGetResp = 0 /\ n6C = 0 /\ all9000 = TRUE
    /\ respAcc = <<>> /\ respSws = <<>> /\ swRaw = 0 /\ lastLen = 0
    /\ retFrom = "" /\ sentOff = 0

\* a token as piv_enumerate / piv_find allocate it (calloc)
TokInit ==
    /\ pt_intxn = FALSE /\ pt_reset = FALSE /\ aborted = FALSE
    /\ t_pc = "idle"
    /\ nBeginTxn = 0 /\ nResetSeen = 0 /\ nReconnect = 0 /\ nReconnectOk = 0
    /\ lastOp = "" /\ lastErr = "" /\ lastDisp = "none" /\ lastRv = ""
    /\ lastRetries = NoRetries /\ lastApdus = <<>>
    /\ txOutside = FALSE /\ heldTxn = FALSE /\ txnHist = {}

\* no piv_verify_pin call has been recorded
NoVerifyCall == [pin |-> "", retries |-> NoRetries, canskip |-> FALSE,
                 r1 |-> NoCall, r2 |-> NoCall, causeSw |-> 0]
PinInit == vp_call = NoVerifyCall

\* no token (a NULL struct piv_token pointer)
NoToken == [rdr |-> 0, guid |-> <<>>, nochuid |-> FALSE, intxn |-> FALSE,
            conn |-> FALSE, freed |-> FALSE]

EnumInit ==
    /\ e_fn = "" /\ e_pc = "idle" /\ e_n = 0 /\ e_rdr = 0
    /\ e_ks = <<>> /\ e_found = NoToken /\ e_rv = "" /\ e_out = <<>>
    /\ e_prefix = <<>> /\ e_seen = <<>>

\* no read has been made
NoRead == [err |-> "", guid |-> <<>>]
NoReadIn == [obj |-> "", r |-> NoCall,
             c |-> [parse |-> TRUE, guid |-> <<>>, chuuid |-> <<>>,
                    fascn_len |-> 0]]
ReadInit == rd_in = NoReadIn /\ rd_out = NoRead

\* slot numbers
PIV_SLOT_9A == 154
PIV_SLOT_9C == 156
PIV_SLOT_9D == 157
PIV_SLOT_9E == 158
PIV_SLOT_CARD_AUTH == PIV_SLOT_9E
PIV_SLOT_RETIRED_1 == 130
PIV_SLOT_YK_ATTESTATION == 249

\* the most retired slots the Key History object reports
MaxHist == 1

RetiredSlots == {PIV_SLOT_RETIRED_1 + i : i \in 0..(MaxHist - 1)}
SlotIds == {PIV_SLOT_9A, PIV_SLOT_9C, PIV_SLOT_9D, PIV_SLOT_9E}
           \cup RetiredSlots

\* no entry for the slot in pt_slots; calloc gives a new entry these fields
NoSlot == [present |-> FALSE, ps_slot |-> 0, pin |-> FALSE]

\* an error: its name and the name of its cause ("" for none)
NoErr == [err |-> "", cause |-> ""]
CertOK == [err |-> "OK", cause |-> ""]

\* no piv_read_cert call has been made
NoCertCall == [slot |-> 0, existed |-> FALSE, md |-> "none", scan |-> FALSE,
               res |-> NoErr]

CertInit ==
    /\ pt_slots = [i \in SlotIds |-> NoSlot]
    /\ pt_hist_oncard = 0
    /\ pt_did_read_all = FALSE
    /\ rc_last = NoCertCall
    /\ ra_pc = 0
    /\ ra_rv = NoErr

\* a NULL apdubuf, and the ciphertext of a box that was never sealed
NullBuf == [b_data |-> FALSE, bytes |-> <<>>]
\* (pt: the plaintext a seal made the ciphertext from)
NoEnc == [b_data |-> FALSE, bytes |-> <<>>, key |-> "", tagok |-> FALSE,
          pt |-> <<>>]

\* piv_box_new: calloc leaves every buffer NULL
NewBox == [pdb_plain |-> NullBuf, live |-> FALSE, pdb_enc |-> NoEnc,
           pdb_guidslot_valid |-> FALSE]

\* no box operation has returned
NoBoxOp == [op |-> "", key |-> "", ecdh |-> FALSE, err |-> "", cause |-> "",
            out |-> <<>>, before |-> NewBox]

BoxInit == box = NewBox /\ bx_last = NoBoxOp

\* nothing was written or read yet
NoBin == [pc |-> "", src |-> "", box |-> <<>>, bytes |-> <<>>, dec |-> <<>>]

BinInit == bn = NoBin

\* no token was looked for yet
NoFind == [pc |-> "", i |-> 0, slotid |-> 0, pool |-> <<>>, toks |-> <<>>,
           box |-> <<>>, res |-> <<>>]

FindInit == ft = NoFind

\* nothing was signed yet
NoSign == [pc |-> "", ps_alg |-> 0, before |-> 0, call |-> <<>>, res |-> <<>>]

SignInit == sg = NoSign

\* a token as calloc leaves it: no slot in the list, no call made
NoSlotCall == [op |-> "", id |-> 0, alg |-> "", ret |-> 0, before |-> <<>>]
NoSlots == [pt_slots |-> <<>>, nalloc |-> 0, seen |-> <<>>, n |-> 0,
            last |-> NoSlotCall]

SlotsInit == sl = NoSlots

\* no call of piv_apdu_transceive_chain is under way
NoRun == [pc |-> "idle", rv |-> "none", a_sw |-> 0, a_le |-> 0, rem |-> 0,
          cmd_len |-> 0, b_alloc |-> FALSE, b_off |-> 0, b_len |-> 0,
          b_size |-> 0, offset |-> 0, gotok |-> FALSE,
          recv |-> [off |-> 0, len |-> 0], verify |-> "none"]

RunInit == rn = NoRun

RestInit == BinInit /\ FindInit /\ SignInit /\ SlotsInit /\ RunInit

AuxInit == PinInit /\ EnumInit /\ ReadInit /\ CertInit /\ BoxInit /\ RestInit

Init == TokInit /\ ChainInit /\ AuxInit

TokNext ==
    \/ piv_txn_begin
    \/ \E rv \in ScardRv, rrv \in ScardRv : piv_txn_begin_retry(rv, rrv)
    \/ \E rv \in ScardRv : piv_txn_end(rv)
    \/ \E pin \in PinArgs, retries \in {NoRetries} \cup (0..MaxRetriesIn),
          canskip \in BOOLEAN, r1 \in ChainResults(QuerySw) :
          \E r2 \in IF VerifyPinSends(pin, retries, canskip, r1)
                    THEN ChainResults(PinSw) ELSE {NoCall} :
             piv_verify_pin(pin, retries, canskip, r1, r2)
    \/ \E argsOk \in BOOLEAN, r \in ChainResults(PinSw) : piv_change_pin(argsOk, r)
    \/ \E argsOk \in BOOLEAN, r \in ChainResults(PinSw) : piv_reset_pin(argsOk, r)
    \/ \E argsOk \in BOOLEAN, r1 \in ChainResults(AdminSw), chal \in ChalResults :
          \E r2 \in IF AuthAdminSends(argsOk, r1, chal)
                    THEN ChainResults(AdminSw) ELSE {NoCall} :
             piv_auth_admin(argsOk, r1, chal, r2)
    \/ \E r \in ChainResults(OtherSw) : piv_write_file(r)
    \/ \E argsOk \in BOOLEAN, r \in ChainResults(OtherSw) : ykpiv_import(argsOk, r)
    \/ \E r \in ChainResults(OtherSw), parseOk \in BOOLEAN : piv_generate(r, parseOk)
    \/ \E op \in ReadOps, r \in ChainResults(OtherSw), parseOk \in BOOLEAN :
          piv_read_op(op, r, parseOk)
    \/ \E op \in YkOps, isYk \in BOOLEAN, r \in ChainResults(OtherSw) :
          ykpiv_op(op, isYk, r)

Next == TokNext /\ UNCHANGED chainVars /\ UNCHANGED auxVars

Spec == Init /\ [][Next]_vars

----------------------------------------------------------------------------
(* Transactions and the reset-on-txn-end flag: claims C1 - C5 *)

\* C1: no APDU is ever transmitted while the token does not hold the
\* transaction (every operation asserts pt_intxn before any SCardTransmit),
\* and pt_intxn is true only between a SCardBeginTransaction that succeeded
\* and the next piv_txn_end.
C1_TransmitOnlyInTxn ==
    /\ ~txOutside
    /\ pt_intxn => heldTxn
    /\ (lastErr = "abort" /\ ~pt_intxn) => lastApdus = <<>>

\* an operation has exchanged APDUs inside a transaction
C1_Witness ==
    /\ pt_intxn /\ heldTxn
    /\ lastOp = "piv_verify_pin"
    /\ lastApdus = <<"VERIFY_EMPTY", "VERIFY_PIN">>

ResetDisp == "SCARD_RESET_CARD"

TxnEnded == lastOp = "piv_txn_end" /\ lastErr = "OK"

\* C2 as stated: after a piv_verify_pin called with a PIN, a piv_change_pin, a
\* piv_reset_pin or a piv_auth_admin returned success inside a transaction,
\* the piv_txn_end that closes it uses the card-reset disposition.
C2_Original ==
    (TxnEnded /\ txnHist \cap {"verify_pin_ok", "pin_changed_ok",
                               "auth_admin_ok"} # {})
        => lastDisp = ResetDisp

\* C2 amended: after a PIN-bearing VERIFY that the card answered 9000, or a
\* piv_change_pin, piv_reset_pin or piv_auth_admin that returned success, the
\* piv_txn_end that closes the transaction uses the card-reset disposition.
\* (A piv_verify_pin that returns success without sending the PIN, because
\* canskip was set and the card was already authenticated, sets no flag.)
C2_ResetAfterPinSuccess ==
    (TxnEnded /\ txnHist \cap {"pin_accepted", "pin_changed_ok",
                               "auth_admin_ok"} # {})
        => lastDisp = ResetDisp

\* a transaction in which only a PIN VERIFY succeeded has ended with a reset
C2_Witness ==
    /\ TxnEnded
    /\ txnHist = {"verify_pin_ok", "pin_accepted"}
    /\ lastDisp = ResetDisp

\* C3 as stated: piv_txn_end uses the reset disposition if and only if some
\* PIN, admin or mutating operation returned success since the matching
\* piv_txn_begin.
C3_Original ==
    TxnEnded =>
        (lastDisp = ResetDisp <=>
            txnHist \cap {"verify_pin_ok", "pin_changed_ok", "auth_admin_ok",
                          "mutate_ok", "yk_ok"} # {})

\* C3 amended: piv_txn_end uses the reset disposition if and only if, since
\* the matching piv_txn_begin, the card answered 9000 to a PIN-bearing VERIFY,
\* to a piv_change_pin / piv_reset_pin or to ykpiv_reset /
\* ykpiv_set_pin_retries / ykpiv_set_admin, or piv_auth_admin got as far as
\* sending its response to the challenge (accepted or not); otherwise it
\* uses the leave-card disposition.
C3_ResetIffFlagged ==
    TxnEnded =>
        /\ lastDisp \in {ResetDisp, "SCARD_LEAVE_CARD"}
        /\ lastDisp = ResetDisp <=>
              txnHist \cap {"pin_accepted", "pin_changed_ok", "yk_ok",
                            "auth_admin_response"} # {}

\* a transaction whose only privileged call was a piv_auth_admin that the card
\* rejected at the response step has ended with a reset
C3_Witness ==
    /\ TxnEnded
    /\ txnHist = {"auth_admin_response"}
    /\ lastDisp = ResetDisp

\* C4: piv_txn_end passes the reset disposition iff pt_reset is set, and
\* leaves pt_intxn and pt_reset false whatever SCardEndTransaction returned.
C4_TxnEndClearsFlags ==
    [][ (lastOp' = "piv_txn_end" /\ lastErr' = "OK") =>
            /\ lastDisp' = (IF pt_reset THEN ResetDisp ELSE "SCARD_LEAVE_CARD")
            /\ pt_intxn' = FALSE
            /\ pt_reset' = FALSE ]_vars

\* a piv_txn_end whose SCardEndTransaction failed has reset the card and
\* cleared both flags
C4_Witness ==
    /\ TxnEnded
    /\ lastRv = "SCARD_E_OTHER"
    /\ lastDisp = ResetDisp
    /\ ~pt_intxn /\ ~pt_reset

\* C5 as stated: one piv_txn_begin makes at most one SCardReconnect and at
\* most two SCardBeginTransaction calls.
C5_Original == nReconnect <= 1 /\ nBeginTxn <= 2

\* C5 amended: piv_txn_begin answers every reader-reset status with one
\* SCardReconnect and, when that succeeds, one more SCardBeginTransaction,
\* for as long as the reader keeps reporting a reset: in one call the number
\* of SCardReconnect calls equals the number of reset statuses, the number
\* of SCardBeginTransaction calls is at most one more than the number of
\* successful reconnects, and a failed reconnect ends the call.
C5_ReconnectPerReset ==
    /\ nReconnect = nResetSeen
    /\ nBeginTxn <= nReconnectOk + 1
    /\ t_pc = "txn_begin" => nBeginTxn = nReconnectOk /\ nReconnect = nReconnectOk
    /\ nReconnect <= nReconnectOk + 1

\* a piv_txn_begin succeeded after two resets, two reconnects, three attempts
C5_Witness ==
    /\ lastOp = "piv_txn_begin" /\ lastErr = "OK" /\ pt_intxn
    /\ nResetSeen = 2 /\ nReconnect = 2 /\ nBeginTxn = 3

----------------------------------------------------------------------------
(* The APDU transport: apdu_to_buffer, piv_apdu_transceive and            *)
(* piv_apdu_transceive_chain                                               *)

\* command body lengths handed to piv_apdu_transceive_chain (0: no body)
CmdLens == {0, 1, 255, 256, 510, LongCmdLen}

\* byte i (1-based) of the caller's command body
CmdByte(i) == i % 251

\* body of length len of the reply to exchange k (0: a command fragment,
\* k > 0: the k-th GET RESPONSE)
RespBody(k, len) == [i \in 1..len |-> (k * 37 + i) % 256]

\* status words and body lengths the card answers with
ChainSw == {SW_NO_ERROR, SW_BYTES_REMAINING_00 + 5, SW_BYTES_REMAINING_00 + 255,
            SW_WARNING_NO_CHANGE_00 + 130,
            SW_INCORRECT_PIN + 2, SW_CORRECT_LE_00 + 7, SW_WRONG_DATA,
            SW_SECURITY_STATUS_NOT_SATISFIED}
RespLens == {0, 2, 255, 256}

\* what SCardTransmit gives back: a failure, or a body of len bytes and sw
Replies == {[ok |-> FALSE, sw |-> 0, len |-> 0]} \cup
           {[ok |-> TRUE, sw |-> w, len |-> l] : w \in ChainSw, l \in RespLens}

\* cls & CLA_CHAIN, cls | CLA_CHAIN, cls & ~CLA_CHAIN
HasChain(cls) == (cls \div CLA_CHAIN) % 2 = 1
SetChain(cls) == IF HasChain(cls) THEN cls ELSE cls + CLA_CHAIN
ClearChain(cls) == IF HasChain(cls) THEN cls - CLA_CHAIN ELSE cls

\* apdu_to_buffer: header, then Le alone when there is no body, else Lc, the
\* b_len body bytes from b_data + b_offset and, unless chaining, Le
ApduToBuffer(cls, ins, p1, p2, le, hasData, off, len) ==
    IF ~hasData
    THEN <<cls, ins, p1, p2, le>>
    ELSE <<cls, ins, p1, p2, len % 256>>
         \o [i \in 1..len |-> CmdByte(off + i)]
         \o (IF HasChain(cls) THEN <<>> ELSE <<le>>)

\* the loop head of the command phase: class byte and length of the fragment
FragClsMut(cls, r) == ClearChain(cls)
FragCls(cls, r) == IF r > 255 THEN SetChain(cls) ELSE ClearChain(cls)
FragLen(r) == IF r > 255 THEN 255 ELSE r

\* what the command phase does with the status of a fragment
CmdStatusNoStop(sw) ==
    IF SwHi(sw) = SW_CORRECT_LE_00 THEN "again" ELSE "advance"
CmdStatus(sw) ==
    IF SwHi(sw) = SW_CORRECT_LE_00 THEN "again"
    ELSE IF SwHi(sw) = SW_NO_ERROR \/ SwHi(sw) = SW_BYTES_REMAINING_00
            \/ SwHi(sw) = SW_WARNING_NO_CHANGE_00 \/ SwHi(sw) = SW_WARNING_00
    THEN "advance"
    ELSE "return"

\* the Le a fragment answered with 6Cxx is sent again with
RetryLeMut(sw) == 0
RetryLe(sw) == SwLo(sw)

\* the condition of the response loop
MoreToRead(sw, len) ==
    SwHi(sw) = SW_BYTES_REMAINING_00 \/ (sw = SW_NO_ERROR /\ len >= 255)

\* the Le of a GET RESPONSE: the low byte of a 61xx (or 6Cxx) status, else
\* a_le as the call has left it
GetRespLeMut(sw, le) ==
    IF SwHi(sw) = SW_BYTES_REMAINING_00 \/ SwHi(sw) = SW_CORRECT_LE_00
    THEN SwLo(sw) ELSE 0
GetRespLe(sw, le) ==
    IF SwHi(sw) = SW_BYTES_REMAINING_00 \/ SwHi(sw) = SW_CORRECT_LE_00
    THEN SwLo(sw) ELSE le

\* a_reply.b_offset += a_reply.b_len before each GET RESPONSE
RespAdvanceMut(off, len) == off
RespAdvance(off, len) == off + len

\* the status word piv_apdu_transceive_chain leaves after response chaining
NormalizeSwMut(ok, sw) == IF sw = SW_WRONG_DATA THEN SW_NO_ERROR ELSE sw
NormalizeSw(ok, sw) == IF ok /\ sw = SW_WRONG_DATA THEN SW_NO_ERROR ELSE sw

ChainTokUnchanged == UNCHANGED <<tokVars, auxVars>>

\* entry of piv_apdu_transceive_chain: VERIFY(pt_intxn), rem = a_cmd.b_len
piv_apdu_transceive_chain ==
    /\ c_pc = "call"
    /\ IF ~VerifyInTxn(pt_intxn)
       THEN /\ c_pc' = "ret" /\ c_rv' = "abort" /\ retFrom' = "call"
            /\ rem' = rem
       ELSE /\ c_pc' = "cmd" /\ c_rv' = c_rv /\ retFrom' = retFrom
            /\ rem' = cmd_len
    /\ UNCHANGED <<cmdN, a_cls, a_ins, a_p1, a_p2, a_le, a_sw, cmd_data, cmd_off,
                   cmd_len, rep_data, rep_alloc, rep_off, rep_len, rep_size,
                   offset, gotok, wire, prevWire, nSent, nCmdSent, nGetResp,
                   n6C, all9000, respAcc, respSws, swRaw, lastLen, sentOff>>
    /\ ChainTokUnchanged

\* piv_apdu_transceive hands buf to SCardTransmit and stores the reply r at
\* a_reply.b_data + roff; k numbers the exchange for RespBody
Transceive(buf, roff, r, k) ==
    /\ wire' = buf
    /\ prevWire' = wire
    /\ nSent' = nSent + 1
    /\ IF ~r.ok
       THEN /\ IF rep_alloc
               THEN /\ rep_alloc' = TRUE /\ rep_size' = rep_size
                    /\ rep_off' = roff /\ rep_len' = rep_len
                    /\ rep_data' = rep_data
               ELSE /\ rep_alloc' = FALSE /\ rep_size' = 0
                    /\ rep_off' = 0 /\ rep_len' = 0 /\ rep_data' = <<>>
            /\ UNCHANGED <<a_sw, swRaw, lastLen>>
       ELSE /\ rep_alloc' = TRUE
            /\ rep_size' = IF rep_alloc THEN rep_size ELSE MAX_APDU_SIZE
            /\ rep_off' = IF rep_alloc THEN roff ELSE 0
            /\ rep_len' = r.len
            /\ rep_data' = SubSeq(rep_data, 1, rep_off') \o RespBody(k, r.len)
            /\ a_sw' = r.sw
            /\ swRaw' = r.sw
            /\ lastLen' = r.len

\* room for the reply, and the bounds on what the card may keep asking for
ReplyFits(roff, r) ==
    r.ok => r.len + 2 <= (IF rep_alloc THEN rep_size ELSE MAX_APDU_SIZE) - roff

\* one pass of the command loop: loop head (unless re-entered at again),
\* piv_apdu_transceive, and the status handling
chain_cmd(r) ==
    /\ c_pc \in {"cmd", "again"}
    /\ LET cls1 == IF c_pc = "cmd" THEN FragCls(a_cls, rem) ELSE a_cls
           len1 == IF c_pc = "cmd" THEN FragLen(rem) ELSE cmd_len
           final == ~HasChain(cls1)
           buf == ApduToBuffer(cls1, a_ins, a_p1, a_p2, a_le, cmd_data,
                               cmd_off, len1)
           st == CmdStatus(r.sw)
       IN
       /\ ReplyFits(rep_off, r)
       /\ (r.ok /\ SwHi(r.sw) = SW_CORRECT_LE_00) => n6C < MaxRetry
       /\ (r.ok /\ MoreToRead(r.sw, r.len)) => MaxGetResp > 0
       /\ a_cls' = cls1
       /\ cmd_len' = len1
       /\ sentOff' = cmd_off
       /\ nCmdSent' = nCmdSent + 1
       /\ Transceive(buf, rep_off, r, 0)
       /\ IF ~r.ok
          THEN /\ c_pc' = "ret" /\ c_rv' = "IOError" /\ retFrom' = "cmd"
               /\ UNCHANGED <<a_le, cmd_off, rem, offset, n6C, all9000,
                              respAcc, respSws>>
          ELSE /\ all9000' = (all9000 /\ r.sw = SW_NO_ERROR)
               /\ respAcc' = IF final THEN RespBody(0, r.len) ELSE <<>>
               /\ respSws' = IF final THEN <<r.sw>> ELSE <<>>
               /\ CASE st = "again" ->
                        /\ a_le' = RetryLe(r.sw)
                        /\ n6C' = n6C + 1
                        /\ c_pc' = "again"
                        /\ UNCHANGED <<cmd_off, rem, offset, c_rv, retFrom>>
                    [] st = "advance" ->
                        /\ cmd_off' = cmd_off + len1
                        /\ rem' = rem - len1
                        /\ c_pc' = IF rem' > 0 THEN "cmd" ELSE "resp"
                        /\ offset' = IF rem' > 0 THEN offset ELSE rep_off'
                        /\ UNCHANGED <<a_le, n6C, c_rv, retFrom>>
                    [] OTHER ->
                        /\ c_pc' = "ret" /\ c_rv' = "OK" /\ retFrom' = "cmd"
                        /\ UNCHANGED <<a_le, cmd_off, rem, offset, n6C>>
    /\ UNCHANGED <<cmdN, a_ins, a_p1, a_p2, cmd_data, gotok, nGetResp>>
    /\ ChainTokUnchanged

\* one pass of the response loop: a GET RESPONSE and its reply
chain_resp(r) ==
    /\ c_pc = "resp"
    /\ MoreToRead(a_sw, rep_len)
    /\ LET le1 == GetRespLe(a_sw, a_le)
           roff == RespAdvance(rep_off, rep_len)
           buf == ApduToBuffer(CLA_ISO, INS_CONTINUE, 0, 0, le1, FALSE,
                               cmd_off, cmd_len)
       IN
       /\ gotok' = (gotok \/ a_sw = SW_NO_ERROR)
       /\ a_cls' = CLA_ISO
       /\ a_ins' = INS_CONTINUE
       /\ a_p1' = 0
       /\ a_p2' = 0
       /\ a_le' = le1
       /\ cmd_data' = FALSE
       /\ IF ~(roff < rep_size)
          THEN /\ c_pc' = "ret" /\ c_rv' = "abort" /\ retFrom' = "resp"
               /\ rep_off' = roff
               /\ UNCHANGED <<a_sw, rep_data, rep_alloc, rep_len, rep_size,
                              wire, prevWire, nSent, nGetResp, respAcc,
                              respSws, swRaw, lastLen>>
          ELSE /\ ReplyFits(roff, r)
               /\ (r.ok /\ MoreToRead(r.sw, r.len)) => nGetResp + 1 < MaxGetResp
               /\ nGetResp' = nGetResp + 1
               /\ Transceive(buf, roff, r, nGetResp + 1)
               /\ IF ~r.ok
                  THEN /\ c_pc' = "ret" /\ c_rv' = "IOError"
                       /\ retFrom' = "resp"
                       /\ UNCHANGED <<respAcc, respSws>>
                  ELSE /\ respAcc' = respAcc \o RespBody(nGetResp + 1, r.len)
                       /\ respSws' = Append(respSws, r.sw)
                       /\ UNCHANGED <<c_pc, c_rv, retFrom>>
    /\ UNCHANGED <<cmdN, cmd_off, cmd_len, rem, offset, nCmdSent, n6C, all9000,
                   sentOff>>
    /\ ChainTokUnchanged

\* after the response loop: the 6A80 quirk, the total length, the offset
chain_finish ==
    /\ c_pc = "resp"
    /\ ~MoreToRead(a_sw, rep_len)
    /\ a_sw' = NormalizeSw(gotok, a_sw)
    /\ rep_len' = rep_len + (rep_off - offset)
    /\ rep_off' = offset
    /\ c_pc' = "ret" /\ c_rv' = "OK" /\ retFrom' = "end"
    /\ UNCHANGED <<cmdN, a_cls, a_ins, a_p1, a_p2, a_le, cmd_data, cmd_off,
                   cmd_len, rep_data, rep_alloc, rep_size, rem, offset, gotok,
                   wire, prevWire, nSent, nCmdSent, nGetResp, n6C, all9000,
                   respAcc, respSws, swRaw, lastLen, sentOff>>
    /\ ChainTokUnchanged

\* the caller has built the APDU with piv_apdu_make and set the command body
\* of n bytes; the token is in a transaction or (a caller's slip) is not
ChainCallInit(n, intxn) ==
    /\ pt_intxn = intxn /\ pt_reset = FALSE /\ aborted = FALSE
    /\ t_pc = "idle"
    /\ nBeginTxn = 0 /\ nResetSeen = 0 /\ nReconnect = 0 /\ nReconnectOk = 0
    /\ lastOp = "" /\ lastErr = "" /\ lastDisp = "none" /\ lastRv = ""
    /\ lastRetries = NoRetries /\ lastApdus = <<>>
    /\ txOutside = FALSE /\ heldTxn = intxn /\ txnHist = {}
    /\ c_pc = "call" /\ c_rv = "none" /\ cmdN = n
    /\ a_cls = CLA_ISO
    /\ a_ins = IF n = 0 THEN INS_VERIFY ELSE INS_PUT_DATA
    /\ a_p1 = IF n = 0 THEN 0 ELSE 63
    /\ a_p2 = IF n = 0 THEN 128 ELSE 255
    /\ a_le = 0 /\ a_sw = 0
    /\ cmd_data = (n > 0) /\ cmd_off = 0 /\ cmd_len = n
    /\ rep_data = <<>> /\ rep_alloc = FALSE /\ rep_off = 0 /\ rep_len = 0
    /\ rep_size = 0
    /\ rem = 0 /\ offset = 0 /\ gotok = FALSE
    /\ wire = <<>> /\ prevWire = <<>> /\ nSent = 0 /\ nCmdSent = 0
    /\ nGetResp = 0 /\ n6C = 0 /\ all9000 = TRUE
    /\ respAcc = <<>> /\ respSws = <<>> /\ swRaw = 0 /\ lastLen = 0
    /\ retFrom = "" /\ sentOff = 0
    /\ AuxInit

InitChain == \E n \in CmdLens, intxn \in BOOLEAN : ChainCallInit(n, intxn)

NextChain ==
    \/ piv_apdu_transceive_chain
    \/ \E r \in Replies : chain_cmd(r)
    \/ \E r \in Replies : chain_resp(r)
    \/ chain_finish

SpecChain == InitChain /\ [][NextChain]_vars

----------------------------------------------------------------------------
(* Command and response chaining (checked under SpecChain)                 *)

\* ceil(n / 255)
Fragments(n) == (n + 254) \div 255

SuccessClass(sw) ==
    SwHi(sw) \in {SW_NO_ERROR, SW_BYTES_REMAINING_00, SW_WARNING_NO_CHANGE_00,
                  SW_WARNING_00}

\* C6: a command body of n >= 1 bytes that the card answers with 9000 at
\* every fragment goes out as ceil(n/255) APDUs in order: the k-th carries
\* the bytes from offset 255*(k-1); every fragment but the last has 255
\* bytes, the chain bit set and no Le; the last has the remaining 1..255
\* bytes, the chain bit clear and a trailing Le; Lc is the fragment length.
\* n <= 255 is a single unchained APDU.
C6_CommandChaining ==
    (c_pc \in {"cmd", "resp", "ret"} /\ cmdN >= 1 /\ nCmdSent >= 1
        /\ nGetResp = 0 /\ all9000) =>
        LET k == nCmdSent
            off == 255 * (k - 1)
            len == wire[5]
        IN
        /\ k <= Fragments(cmdN)
        /\ sentOff = off
        /\ IF off + 255 >= cmdN
           THEN /\ len = cmdN - off /\ len >= 1 /\ len <= 255
                /\ ~HasChain(wire[1])
                /\ Len(wire) = len + 6
           ELSE /\ len = 255
                /\ HasChain(wire[1])
                /\ Len(wire) = len + 5
        /\ \A i \in 1..len : wire[5 + i] = CmdByte(off + i)
        /\ (c_pc = "resp" \/ retFrom = "end") => k = Fragments(cmdN)

\* the longest body has gone out whole, in more than two fragments
C6_Witness ==
    /\ cmdN = LongCmdLen /\ c_pc = "resp" /\ all9000 /\ nGetResp = 0
    /\ nCmdSent = Fragments(cmdN) /\ nCmdSent >= 3
    /\ ~HasChain(wire[1]) /\ HasChain(prevWire[1])
    /\ wire[5] = cmdN - 255 * (nCmdSent - 1)

\* C7: a command fragment answered with 6Cxx is sent again unchanged (same
\* class byte, offset, Lc and body) with Le = xx (on the wire wherever the
\* fragment has an Le byte); a fragment at another offset is sent only after
\* a status of class 90, 61, 62 or 63, and it starts where the last ended.
C7_RetryWithLe ==
    [][(nCmdSent >= 1 /\ nCmdSent' = nCmdSent + 1) =>
        IF SwHi(a_sw) = SW_CORRECT_LE_00
        THEN /\ a_le = SwLo(a_sw)
             /\ sentOff' = sentOff
             /\ wire' = IF Len(wire) > 5 /\ HasChain(wire[1])
                        THEN wire
                        ELSE [wire EXCEPT ![Len(wire)] = SwLo(a_sw)]
        ELSE /\ SuccessClass(a_sw)
             /\ Len(wire) > 5
             /\ sentOff' = sentOff + wire[5]]_vars

\* the final fragment of a 510-byte body was answered 6C07 and sent again
C7_Witness ==
    /\ cmdN = 510 /\ n6C = 1 /\ nCmdSent = 3 /\ sentOff = 255
    /\ c_pc = "resp"
    /\ ~HasChain(prevWire[1]) /\ prevWire[Len(prevWire)] = 0
    /\ wire[Len(wire)] = 7 /\ wire[5] = 255

\* C8: a status whose high byte is none of 90, 61, 62, 63, 6C in answer to a
\* command fragment ends the call there: it returns without an error, the
\* status is in a_sw as received, the command offset has not moved and no
\* GET RESPONSE was sent.
C8_StopOnOtherStatus ==
    (nCmdSent >= 1 /\ nGetResp = 0 /\ c_rv # "IOError"
        /\ ~SuccessClass(swRaw) /\ SwHi(swRaw) # SW_CORRECT_LE_00) =>
        /\ c_pc = "ret" /\ c_rv = "OK" /\ retFrom = "cmd"
        /\ a_sw = swRaw
        /\ cmd_off = sentOff
        /\ wire[2] # INS_CONTINUE

\* the first of two fragments was refused and the second never sent
C8_Witness ==
    /\ cmdN = 510 /\ nCmdSent = 1 /\ nSent = 1 /\ rem = 510
    /\ c_pc = "ret" /\ c_rv = "OK"
    /\ a_sw = SW_SECURITY_STATUS_NOT_SATISFIED

\* C9: every exchange after the final command fragment is a GET RESPONSE
\* (CLA 00, INS C0, P1 = P2 = 0, no body) and follows a status of 61xx or
\* 9000; the call returns from the response phase only on a status that is
\* neither 61xx nor 9000 with a body of 255 bytes or more, and then the reply
\* starts at the original reply offset and is the bodies received from the
\* final command fragment onwards, in order, its length their sum.
C9_ResponseChaining ==
    /\ (nGetResp >= 1 /\ c_rv # "abort") =>
        /\ wire = <<CLA_ISO, INS_CONTINUE, 0, 0, wire[5]>>
        /\ Len(respSws) >= nGetResp
        /\ \A i \in 1..nGetResp :
              \/ SwHi(respSws[i]) = SW_BYTES_REMAINING_00
              \/ respSws[i] = SW_NO_ERROR
    /\ (c_pc = "ret" /\ retFrom = "end") =>
        /\ SwHi(swRaw) # SW_BYTES_REMAINING_00
        /\ ~(swRaw = SW_NO_ERROR /\ lastLen >= 255)
        /\ Len(respSws) = nGetResp + 1
        /\ rep_off = 0
        /\ rep_len = Len(respAcc)
        /\ SubSeq(rep_data, rep_off + 1, rep_off + rep_len) = respAcc

\* three bodies of 255, 256 and 2 bytes were read with two GET RESPONSEs
C9_Witness ==
    /\ c_pc = "ret" /\ retFrom = "end" /\ nGetResp = 2
    /\ respSws = <<SW_NO_ERROR, SW_BYTES_REMAINING_00 + 5, SW_NO_ERROR>>
    /\ rep_len = 255 + 256 + 2

\* C10: the status a successful call leaves is the one received last, except
\* that 6A80 in answer to a GET RESPONSE becomes 9000 when a 9000 came
\* earlier in the responses from the final command fragment onwards; a 6A80
\* without such a 9000 is left as it is.
C10_NormalizeWrongData ==
    (c_pc = "ret" /\ c_rv = "OK") =>
        a_sw = IF /\ retFrom = "end" /\ nGetResp >= 1
                  /\ swRaw = SW_WRONG_DATA
                  /\ \E i \in 1..(Len(respSws) - 1) : respSws[i] = SW_NO_ERROR
               THEN SW_NO_ERROR
               ELSE swRaw

\* a GET RESPONSE after a full 9000 body was answered 6A80
C10_Witness ==
    /\ c_pc = "ret" /\ retFrom = "end" /\ swRaw = SW_WRONG_DATA
    /\ a_sw = SW_NO_ERROR /\ nGetResp >= 1

\* the last exchange was a GET RESPONSE, and the status that led to it
GetRespSent == nGetResp >= 1 /\ Len(wire) = 5 /\ wire[2] = INS_CONTINUE
GetRespAfter == respSws[nGetResp]

\* C29 as stated: Le = xx after 61xx and Le = 0 after 9000 with a full body.
C29_Original ==
    GetRespSent =>
        /\ SwHi(GetRespAfter) = SW_BYTES_REMAINING_00
            => wire[5] = SwLo(GetRespAfter)
        /\ GetRespAfter = SW_NO_ERROR => wire[5] = 0

\* C29: a GET RESPONSE carries Le = xx when the status before it was 61xx;
\* when it is sent because of 9000 with a full body it carries the Le of the
\* exchange before it, which is 0 only if no 6Cxx or 61xx of the call has
\* set another.
C29_GetResponseLe ==
    GetRespSent =>
        /\ SwHi(GetRespAfter) = SW_BYTES_REMAINING_00
            => wire[5] = SwLo(GetRespAfter)
        /\ GetRespAfter = SW_NO_ERROR =>
            /\ wire[5] = prevWire[Len(prevWire)]
            /\ (n6C = 0 /\ nGetResp = 1) => wire[5] = 0

\* 61FF, then a body of 255 bytes with 9000: the second GET RESPONSE asks
\* for 255 bytes again
C29_Witness ==
    /\ GetRespSent /\ nGetResp = 2
    /\ respSws[1] = SW_BYTES_REMAINING_00 + 255
    /\ GetRespAfter = SW_NO_ERROR
    /\ wire[5] = 255

----------------------------------------------------------------------------
(* piv_verify_pin with its arguments and the card's answers on record      *)

\* a call of piv_verify_pin, recorded in vp_call
verify_pin_call(pin, retries, canskip, r1, r2) ==
    /\ piv_verify_pin(pin, retries, canskip, r1, r2)
    /\ \E c \in FreedSw(pin, r1) :
        vp_call' = [pin |-> pin, retries |-> retries, canskip |-> canskip,
                    r1 |-> r1, r2 |-> r2, causeSw |-> c]

NextPin ==
    \/ piv_txn_begin /\ UNCHANGED <<chainVars, auxVars>>
    \/ \E rv \in ScardRv, rrv \in ScardRv :
          piv_txn_begin_retry(rv, rrv) /\ UNCHANGED <<chainVars, auxVars>>
    \/ \E rv \in ScardRv : piv_txn_end(rv) /\ UNCHANGED <<chainVars, auxVars>>
    \/ \E pin \in PinArgs, retries \in {NoRetries} \cup (0..MaxRetriesIn),
          canskip \in BOOLEAN, r1 \in ChainResults(QuerySw) :
          \E r2 \in IF VerifyPinSends(pin, retries, canskip, r1)
                    THEN ChainResults(PinSw) ELSE {NoCall} :
             /\ verify_pin_call(pin, retries, canskip, r1, r2)
             /\ UNCHANGED exceptPin

SpecPin == Init /\ [][NextPin]_vars

\* the last operation was a piv_verify_pin that ran to its return
VerifyPinReturned == lastOp = "piv_verify_pin" /\ lastErr # "abort"

\* the status query was exchanged and answered 63Cx
QueryAnswered63Cx ==
    /\ lastApdus # <<>> /\ lastApdus[1] = "VERIFY_EMPTY"
    /\ ~vp_call.r1.io /\ SwHi12(vp_call.r1.sw) = SW_INCORRECT_PIN

\* the PIN-bearing VERIFY went out
PinVerifySent == \E i \in 1..Len(lastApdus) : lastApdus[i] = "VERIFY_PIN"

\* C11: piv_verify_pin called without a PIN exchanges the empty VERIFY and
\* nothing else; answered 9000 it returns success and leaves *retries alone,
\* answered 63Cx it returns success and, given a retries pointer, stores x.
C11_StatusQuery ==
    (VerifyPinReturned /\ vp_call.pin = "NULL") =>
        /\ lastApdus = <<"VERIFY_EMPTY">>
        /\ (~vp_call.r1.io /\ vp_call.r1.sw = SW_NO_ERROR) =>
              (lastErr = "OK" /\ lastRetries = vp_call.retries)
        /\ (~vp_call.r1.io /\ SwHi12(vp_call.r1.sw) = SW_INCORRECT_PIN) =>
              /\ lastErr = "OK"
              /\ lastRetries = IF vp_call.retries = NoRetries THEN NoRetries
                               ELSE SwLo4(vp_call.r1.sw)

\* a query with a retries pointer was answered 63C2
C11_Witness ==
    /\ VerifyPinReturned /\ vp_call.pin = "NULL" /\ vp_call.retries = 0
    /\ vp_call.r1 = [io |-> FALSE, sw |-> SW_INCORRECT_PIN + 2]
    /\ lastErr = "OK" /\ lastRetries = 2 /\ lastApdus = <<"VERIFY_EMPTY">>

\* C12: with a PIN and *retries = N > 0, a status query answered 63Cx is
\* followed by the PIN-bearing VERIFY exactly when x >= N; otherwise the call
\* returns MinRetriesError with *retries = x and the PIN is not sent.
C12_MinRetriesGuard ==
    (VerifyPinReturned /\ vp_call.pin = "pin" /\ vp_call.retries > 0
        /\ QueryAnswered63Cx) =>
        LET x == SwLo4(vp_call.r1.sw) IN
        IF x >= vp_call.retries
        THEN PinVerifySent
        ELSE /\ ~PinVerifySent
             /\ lastErr = "MinRetriesError"
             /\ lastRetries = x

\* C13: a PIN-bearing VERIFY answered 63Cx or 6983 makes piv_verify_pin
\* return PermissionError, store x (or 0 when blocked) through a retries
\* pointer, and leave pt_reset as it was before the call.
C13_PinRejected ==
    [][(lastOp' = "piv_verify_pin" /\ lastErr' # "abort"
        /\ lastApdus' # <<>> /\ lastApdus'[Len(lastApdus')] = "VERIFY_PIN"
        /\ ~vp_call'.r2.io
        /\ (vp_call'.r2.sw = SW_FILE_INVALID
            \/ SwHi12(vp_call'.r2.sw) = SW_INCORRECT_PIN)) =>
        /\ lastErr' = "PermissionError"
        /\ lastRetries' = IF vp_call'.retries = NoRetries THEN NoRetries
                          ELSE IF vp_call'.r2.sw = SW_FILE_INVALID THEN 0
                          ELSE SwLo4(vp_call'.r2.sw)
        /\ pt_reset' = pt_reset]_vars

\* a blocked PIN was reported through the retries pointer
C13_Witness ==
    /\ VerifyPinReturned /\ PinVerifySent /\ vp_call.retries = 0
    /\ vp_call.r2 = [io |-> FALSE, sw |-> SW_FILE_INVALID]
    /\ lastErr = "PermissionError" /\ lastRetries = 0 /\ ~pt_reset

\* the status query was exchanged and answered 6700 or 6A80
QueryUnsupported ==
    /\ VerifyPinReturned
    /\ lastApdus # <<>> /\ lastApdus[1] = "VERIFY_EMPTY"
    /\ ~vp_call.r1.io /\ vp_call.r1.sw \in {SW_WRONG_LENGTH, SW_WRONG_DATA}

\* C30: after 6700 or 6A80 to the status query, piv_verify_pin without a PIN
\* returns NotSupportedError, whatever status its cause quotes, and leaves
\* *retries alone; with a PIN of 1 to 8 characters it sends the PIN-bearing
\* VERIFY, also when a minimum of N > 0 retries was asked for.
C30_NoEmptyVerify ==
    QueryUnsupported =>
        /\ vp_call.pin = "NULL" =>
            /\ lastErr = "NotSupportedError"
            /\ lastRetries = vp_call.retries
            /\ lastApdus = <<"VERIFY_EMPTY">>
        /\ vp_call.pin = "pin" =>
            /\ PinVerifySent
            /\ lastApdus = <<"VERIFY_EMPTY", "VERIFY_PIN">>
            /\ lastErr # "NotSupportedError"

\* 6A80 to the query of a call with a PIN and a minimum of 2 retries: the
\* PIN went out and was accepted
C30_Witness ==
    /\ QueryUnsupported /\ vp_call.pin = "pin" /\ vp_call.retries = 2
    /\ vp_call.r1.sw = SW_WRONG_DATA
    /\ PinVerifySent /\ lastErr = "OK"

\* piv_verify_pin was called with a PIN and returned
PinCallReturned == VerifyPinReturned /\ vp_call.pin # "NULL"

\* the status query went out
QuerySent == \E i \in 1..Len(lastApdus) : lastApdus[i] = "VERIFY_EMPTY"

\* C31: with a PIN, piv_verify_pin returns success without the PIN-bearing
\* VERIFY exactly when canskip is set and the status query was answered
\* 9000; with canskip clear and no minimum retry count it sends no status
\* query, and the PIN-bearing VERIFY of a PIN of 1 to 8 characters is the
\* only APDU exchanged.
C31_PinSkipping ==
    PinCallReturned =>
        /\ (lastErr = "OK" /\ ~PinVerifySent) <=>
            (vp_call.canskip /\ QuerySent /\ ~vp_call.r1.io
                /\ vp_call.r1.sw = SW_NO_ERROR)
        /\ (~vp_call.canskip /\ vp_call.retries \in {NoRetries, 0}) =>
            /\ ~QuerySent
            /\ vp_call.pin = "pin" => lastApdus = <<"VERIFY_PIN">>

\* the PIN was skipped on an authenticated card, a minimum of 1 asked for
C31_Witness ==
    /\ PinCallReturned /\ vp_call.pin = "pin" /\ vp_call.canskip
    /\ vp_call.retries = 1 /\ vp_call.r1 = [io |-> FALSE, sw |-> SW_NO_ERROR]
    /\ lastErr = "OK" /\ lastApdus = <<"VERIFY_EMPTY">>

----------------------------------------------------------------------------
(* Reading the CHUID, Discovery and Key History objects                    *)

\* pt_guid as calloc leaves it, and the GUIDs the cards of the model carry
Zero16 == [i \in 1..GUID_LEN |-> 0]
GuidA == [i \in 1..GUID_LEN |-> i - 1]
GuidB == [i \in 1..GUID_LEN |-> IF i <= 8 THEN i - 1 ELSE 255]
\* first GUID_LEN bytes of the SHA-256 digest of the FASC-N (taken non-zero)
Sha256Guid == [i \in 1..GUID_LEN |-> (i * 37 + 11) % 256]

\* a CHUID object: parse is whether the TLV parses, guid / chuuid the 16
\* bytes of tags 0x34 / 0x36 (<<>>: tag absent), fascn_len the length of tag
\* 0x30 (0: absent or empty)
NoContent == [parse |-> TRUE, guid |-> <<>>, chuuid |-> <<>>, fascn_len |-> 0]
ChuidContents ==
    {[parse |-> TRUE, guid |-> g, chuuid |-> u, fascn_len |-> f] :
        g \in {<<>>, Zero16, GuidA, GuidB}, u \in {<<>>, Zero16, GuidB},
        f \in {0, 25}}
    \cup {[parse |-> FALSE, guid |-> <<>>, chuuid |-> <<>>, fascn_len |-> 0]}

\* status words answered to GET DATA
ReadSw == {SW_NO_ERROR, SW_FILE_NOT_FOUND, SW_WRONG_DATA,
           SW_FUNC_NOT_SUPPORTED, SW_SECURITY_STATUS_NOT_SATISFIED}
OkRes == [io |-> FALSE, sw |-> SW_NO_ERROR]

\* the statuses on which the reply is parsed
ReadParsed(sw) ==
    sw = SW_NO_ERROR \/ SwHi(sw) = SW_WARNING_NO_CHANGE_00
                     \/ SwHi(sw) = SW_WARNING_00

\* pt_guid after piv_read_chuid parsed the object c into a zeroed token
ChuidGuid(c) ==
    LET g0 == IF c.guid = <<>> THEN Zero16 ELSE c.guid
        u == IF c.chuuid = <<>> THEN Zero16 ELSE c.chuuid
    IN IF g0 # Zero16 THEN g0
       ELSE IF u # Zero16 THEN u
       ELSE IF c.fascn_len > 0 THEN Sha256Guid
       ELSE u

\* the error kind for a status on which the reply is not parsed
ChuidSwErr(sw) ==
    IF sw = SW_FILE_NOT_FOUND \/ sw = SW_WRONG_DATA THEN "NotFoundError"
    ELSE "APDUError"
DiscovSwErrMut(sw) ==
    IF sw = SW_FILE_NOT_FOUND \/ sw = SW_WRONG_DATA THEN "NotFoundError"
    ELSE "APDUError"
DiscovSwErr(sw) ==
    IF sw = SW_FILE_NOT_FOUND \/ sw = SW_WRONG_DATA THEN "NotFoundError"
    ELSE IF sw = SW_FUNC_NOT_SUPPORTED THEN "NotSupportedError"
    ELSE "APDUError"
KeyhistSwErr(sw) ==
    IF sw = SW_FILE_NOT_FOUND \/ sw = SW_WRONG_DATA THEN "NotFoundError"
    ELSE IF sw = SW_FUNC_NOT_SUPPORTED THEN "NotSupportedError"
    ELSE "APDUError"

\* piv_read_chuid, piv_read_discov, piv_read_keyhist: r is the outcome of the
\* chain call; the result is the error kind and, for the CHUID, pt_guid
piv_read_chuid(r, c) ==
    IF r.io THEN [err |-> "IOError", guid |-> Zero16]
    ELSE IF ReadParsed(r.sw)
    THEN IF c.parse THEN [err |-> "OK", guid |-> ChuidGuid(c)]
         ELSE [err |-> "InvalidDataError", guid |-> Zero16]
    ELSE [err |-> ChuidSwErr(r.sw), guid |-> Zero16]
piv_read_discov(r, parseOk) ==
    IF r.io THEN "IOError"
    ELSE IF ReadParsed(r.sw)
    THEN IF parseOk THEN "OK" ELSE "InvalidDataError"
    ELSE DiscovSwErr(r.sw)
piv_read_keyhist(r, parseOk) ==
    IF r.io THEN "IOError"
    ELSE IF ReadParsed(r.sw)
    THEN IF parseOk THEN "OK" ELSE "InvalidDataError"
    ELSE KeyhistSwErr(r.sw)

\* ykpiv_get_version then ykpiv_read_serial as piv_enumerate and piv_find
\* call them: each chain call fails ("io"), is answered 9000 with a reply
\* long enough ("ok") or is answered anything else ("nosup")
YkProbe(y) ==
    IF y[1] = "io" THEN "IOError"
    ELSE IF y[1] = "nosup" THEN "NotSupportedError"
    ELSE IF y[2] = "io" THEN "IOError"
    ELSE IF y[2] = "nosup" THEN "NotSupportedError"
    ELSE "OK"

\* errf_caused_by(err, k) for some k in kinds: the error is dropped
Absorb(err, kinds) == IF err \in kinds THEN "OK" ELSE err

\* the inputs one reader gives
SelErrs == {"OK", "NotFoundError", "IOError"}
ChuidIn == {<<r, NoContent>> : r \in ChainResults(ReadSw) \ {OkRes}}
           \cup {<<OkRes, c>> : c \in ChuidContents}
ObjIn == {<<r, TRUE>> : r \in ChainResults(ReadSw)} \cup {<<OkRes, FALSE>>}
YkIn == {<<"io", "ok">>, <<"nosup", "ok">>, <<"ok", "io">>,
         <<"ok", "nosup">>, <<"ok", "ok">>}
NoChuidIn == <<OkRes, NoContent>>
NoObjIn == <<OkRes, TRUE>>
NoYkIn == <<"ok", "ok">>

----------------------------------------------------------------------------
(* piv_enumerate                                                            *)

ListRv == {"SCARD_S_SUCCESS", "SCARD_E_NO_SERVICE", "SCARD_E_OTHER"}

\* the two SCardListReaders calls at the head of piv_enumerate and piv_find:
\* the error kind returned, "OK" when the reader list was obtained
ListReadersErr(rv1, rv2) ==
    IF rv1 = "SCARD_E_NO_SERVICE" THEN "PCSCContextError"
    ELSE IF rv1 # "SCARD_S_SUCCESS" THEN "PCSCError"
    ELSE IF rv2 # "SCARD_S_SUCCESS" THEN "PCSCError"
    ELSE "OK"

\* one pass of piv_enumerate's loop over a reader: conn is whether
\* SCardConnect succeeded, begin whether piv_txn_begin did, sel the result
\* of piv_select, ci / di / ki / yi what the card answers to the reads.
\* stage is how far the reader got, err the error left at piv_txn_end.
EnumReader(conn, begin, sel, ci, di, ki, yi) ==
    LET ch == piv_read_chuid(ci[1], ci[2])
        e2 == IF sel = "OK" THEN Absorb(ch.err, {"NotFoundError"}) ELSE sel
        e3 == IF e2 = "OK"
              THEN Absorb(piv_read_discov(di[1], di[2]),
                          {"NotFoundError", "NotSupportedError"})
              ELSE e2
        e4 == IF e3 = "OK"
              THEN Absorb(piv_read_keyhist(ki[1], ki[2]),
                          {"NotFoundError", "NotSupportedError"})
              ELSE e3
        e5 == IF e4 = "OK" THEN Absorb(YkProbe(yi), {"NotSupportedError"})
              ELSE e4
    IN [stage |-> IF ~conn THEN "connect"
                  ELSE IF ~begin THEN "begin"
                  ELSE IF sel # "OK" THEN "select"
                  ELSE IF e2 # "OK" THEN "chuid"
                  ELSE IF e3 # "OK" THEN "discov"
                  ELSE IF e4 # "OK" THEN "keyhist"
                  ELSE IF e5 # "OK" THEN "yubico"
                  ELSE "ok",
        err |-> IF ~conn \/ ~begin THEN "PCSCError" ELSE e5,
        guid |-> IF conn /\ begin /\ sel = "OK" /\ ch.err = "OK"
                 THEN ch.guid ELSE Zero16,
        nochuid |-> conn /\ begin /\ sel = "OK" /\ ch.err = "NotFoundError"]

\* how far a reader gets with the later answers left at their defaults
StageOf(conn, begin, sel, ci, di, ki) ==
    EnumReader(conn, begin, sel, ci, di, ki, NoYkIn).stage

\* if (err == ERRF_OK) { key->pt_next = ks; ks = key; } else the reader is
\* dropped and its card disconnected
EnumKeepsMut(x) == x.stage \notin {"connect", "begin"}
EnumKeeps(x) == x.stage \notin {"connect", "begin"} /\ x.err = "OK"

piv_enumerate(rv1, rv2, n) ==
    /\ e_pc = "idle"
    /\ e_fn' = "piv_enumerate"
    /\ IF ListReadersErr(rv1, rv2) # "OK"
       THEN /\ e_pc' = "ret" /\ e_rv' = ListReadersErr(rv1, rv2)
            /\ UNCHANGED <<e_n, e_rdr>>
       ELSE /\ e_pc' = "loop" /\ e_rv' = ""
            /\ e_n' = n /\ e_rdr' = 1
    /\ UNCHANGED <<e_ks, e_found, e_out, e_prefix, e_seen>>
    /\ UNCHANGED exceptEnum

enumerate_reader(conn, begin, sel, ci, di, ki, yi) ==
    /\ e_fn = "piv_enumerate" /\ e_pc = "loop" /\ e_rdr <= e_n
    /\ LET x == EnumReader(conn, begin, sel, ci, di, ki, yi) IN
       /\ e_ks' = IF EnumKeeps(x)
                  THEN <<[rdr |-> e_rdr, guid |-> x.guid,
                          nochuid |-> x.nochuid, intxn |-> FALSE,
                          conn |-> TRUE, freed |-> FALSE]>> \o e_ks
                  ELSE e_ks
       \* piv_txn_end(key) closes every pass that piv_txn_begin opened
       /\ e_seen' = Append(e_seen, [stage |-> x.stage, guid |-> x.guid,
                                    nochuid |-> x.nochuid, intxn |-> FALSE])
    /\ e_rdr' = e_rdr + 1
    /\ UNCHANGED <<e_fn, e_pc, e_n, e_found, e_rv, e_out, e_prefix>>
    /\ UNCHANGED exceptEnum

\* the loop is over: *tokens = ks; return (ERRF_OK)
enumerate_return ==
    /\ e_fn = "piv_enumerate" /\ e_pc = "loop" /\ e_rdr > e_n
    /\ e_out' = e_ks /\ e_rv' = "OK" /\ e_pc' = "ret"
    /\ UNCHANGED <<e_fn, e_n, e_rdr, e_ks, e_found, e_prefix, e_seen>>
    /\ UNCHANGED exceptEnum

EnumerateNext ==
    \/ \E rv1 \in ListRv, rv2 \in ListRv, n \in 0..MaxReaders :
          piv_enumerate(rv1, rv2, n)
    \/ \E conn \in BOOLEAN, begin \in BOOLEAN, sel \in SelErrs :
       \E ci \in IF conn /\ begin /\ sel = "OK" THEN ChuidIn ELSE {NoChuidIn} :
       \E di \in IF StageOf(conn, begin, sel, ci, NoObjIn, NoObjIn) = "ok"
                 THEN ObjIn ELSE {NoObjIn} :
       \E ki \in IF StageOf(conn, begin, sel, ci, di, NoObjIn) = "ok"
                 THEN ObjIn ELSE {NoObjIn} :
       \E yi \in IF StageOf(conn, begin, sel, ci, di, ki) = "ok"
                 THEN YkIn ELSE {NoYkIn} :
          enumerate_reader(conn, begin, sel, ci, di, ki, yi)
    \/ enumerate_return

----------------------------------------------------------------------------
(* piv_find                                                                 *)

\* the guid / guidlen arguments: guidlen bytes, guidlen in 0 .. GUID_LEN
FindPrefixes == {SubSeq(g, 1, l) : g \in {Zero16, GuidA, GuidB},
                                   l \in 0..GUID_LEN}

\* bcmp(guid, key->pt_guid, guidlen) == 0
PrefixMatches(prefix, g) == SubSeq(g, 1, Len(prefix)) = prefix

\* if (guidlen == 0 || bcmp(guid, key->pt_guid, guidlen) != 0) goto nope
FindRejects(prefix, g) == Len(prefix) = 0 \/ ~PrefixMatches(prefix, g)

\* one pass of piv_find's loop over a reader: what becomes of the reader's
\* token ("skip": not usable or not matching, "match": it is a candidate)
FindReader(prefix, conn, begin, sel, ci) ==
    LET ch == piv_read_chuid(ci[1], ci[2]) IN
    IF ~conn THEN [stage |-> "connect", what |-> "skip", guid |-> Zero16,
                   nochuid |-> FALSE]
    ELSE IF ~begin THEN [stage |-> "begin", what |-> "skip", guid |-> Zero16,
                         nochuid |-> FALSE]
    ELSE IF sel # "OK" THEN [stage |-> "select", what |-> "skip",
                             guid |-> Zero16, nochuid |-> FALSE]
    ELSE IF ch.err = "NotFoundError" /\ Len(prefix) = 0
    THEN [stage |-> "ok", what |-> "match", guid |-> Zero16, nochuid |-> TRUE]
    ELSE IF ch.err # "OK"
    THEN [stage |-> "chuid", what |-> "skip", guid |-> Zero16,
          nochuid |-> ch.err = "NotFoundError"]
    ELSE IF FindRejects(prefix, ch.guid)
    THEN [stage |-> "ok", what |-> "skip", guid |-> ch.guid, nochuid |-> FALSE]
    ELSE [stage |-> "ok", what |-> "match", guid |-> ch.guid,
          nochuid |-> FALSE]

\* the reader's token still holds its transaction after the pass: the
\* token found does, to the end of piv_find; the label nope ends the others
FindHoldsMut(x) == x.what = "match" \/ x.stage = "chuid"
FindHolds(x) == x.what = "match"

piv_find(rv1, rv2, n, prefix) ==
    /\ e_pc = "idle"
    /\ e_fn' = "piv_find"
    /\ e_prefix' = prefix
    /\ IF ListReadersErr(rv1, rv2) # "OK"
       THEN /\ e_pc' = "ret" /\ e_rv' = ListReadersErr(rv1, rv2)
            /\ UNCHANGED <<e_n, e_rdr>>
       ELSE /\ e_pc' = "loop" /\ e_rv' = ""
            /\ e_n' = n /\ e_rdr' = 1
    /\ UNCHANGED <<e_ks, e_found, e_out, e_seen>>
    /\ UNCHANGED exceptEnum

find_reader(conn, begin, sel, ci) ==
    /\ e_fn = "piv_find" /\ e_pc = "loop" /\ e_rdr <= e_n
    /\ LET x == FindReader(e_prefix, conn, begin, sel, ci)
           seen == Append(e_seen, [stage |-> x.stage, guid |-> x.guid,
                                   nochuid |-> x.nochuid,
                                   intxn |-> FindHolds(x)])
       IN
       /\ e_seen' = IF x.what = "match" /\ e_found # NoToken
                    THEN \* piv_txn_end(key), piv_txn_end(found)
                         [seen EXCEPT ![e_rdr].intxn = FALSE,
                                      ![e_found.rdr].intxn = FALSE]
                    ELSE seen
       /\ IF x.what = "match" /\ e_found # NoToken
          THEN \* both tokens are released: DuplicateError
               /\ e_found' = NoToken
               /\ e_rv' = "DuplicateError" /\ e_pc' = "ret"
               /\ e_rdr' = e_rdr
          ELSE /\ e_found' = IF x.what = "match"
                             THEN [rdr |-> e_rdr, guid |-> x.guid,
                                   nochuid |-> x.nochuid, intxn |-> TRUE,
                                   conn |-> TRUE, freed |-> FALSE]
                             ELSE e_found
               /\ e_rdr' = e_rdr + 1
               /\ UNCHANGED <<e_rv, e_pc>>
    /\ UNCHANGED <<e_fn, e_n, e_ks, e_out, e_prefix>>
    /\ UNCHANGED exceptEnum

\* after the loop: NotFoundError, or the remaining reads on the token found,
\* piv_txn_end, and *token = key; return (ERRF_OK). junk is what the memory
\* of a freed token holds in the place of pt_intxn.
find_finish(di, ki, yi, junk) ==
    /\ e_fn = "piv_find" /\ e_pc = "loop" /\ e_rdr > e_n
    /\ e_pc' = "ret"
    /\ IF e_found = NoToken
       THEN e_rv' = "NotFoundError" /\ e_out' = e_out
       ELSE LET e3 == Absorb(piv_read_discov(di[1], di[2]),
                             {"NotFoundError", "NotSupportedError"})
                e4 == IF e3 = "OK"
                      THEN Absorb(piv_read_keyhist(ki[1], ki[2]),
                                  {"NotFoundError", "NotSupportedError"})
                      ELSE e3
                e5 == IF e4 = "OK"
                      THEN Absorb(YkProbe(yi), {"NotSupportedError"})
                      ELSE e4
            IN /\ e_rv' = "OK"
               /\ e_out' = <<[e_found EXCEPT
                                !.intxn = IF e5 = "OK" THEN FALSE ELSE junk,
                                !.conn = (e5 = "OK"),
                                !.freed = (e5 # "OK")]>>
    /\ e_seen' = IF e_found = NoToken THEN e_seen
                 ELSE [e_seen EXCEPT ![e_found.rdr].intxn = FALSE]
    /\ UNCHANGED <<e_fn, e_n, e_rdr, e_ks, e_found, e_prefix>>
    /\ UNCHANGED exceptEnum

FindNext ==
    \/ \E rv1 \in ListRv, rv2 \in ListRv, n \in 0..MaxReaders,
          prefix \in FindPrefixes : piv_find(rv1, rv2, n, prefix)
    \/ \E conn \in BOOLEAN, begin \in BOOLEAN, sel \in SelErrs :
       \E ci \in IF conn /\ begin /\ sel = "OK" THEN ChuidIn ELSE {NoChuidIn} :
          find_reader(conn, begin, sel, ci)
    \/ \E di \in IF e_found # NoToken THEN ObjIn ELSE {NoObjIn} :
       \E ki \in IF e_found # NoToken THEN ObjIn ELSE {NoObjIn} :
       \E yi \in IF e_found # NoToken THEN YkIn ELSE {NoYkIn} :
       \E junk \in IF e_found # NoToken THEN BOOLEAN ELSE {FALSE} :
          find_finish(di, ki, yi, junk)

NextEnum == EnumerateNext \/ FindNext

SpecEnum == Init /\ [][NextEnum]_vars

----------------------------------------------------------------------------
(* Enumeration and lookup of tokens (checked under SpecEnum)               *)

\* the readers visited whose token was read without an error left over
ReadersOk == {r \in 1..Len(e_seen) : e_seen[r].stage = "ok"}

\* C14: once the reader list is obtained piv_enumerate returns success after
\* visiting every reader; the tokens returned are exactly those of the
\* readers that got through connect, transaction begin, select and the object
\* reads, each live and connected; a reader that failed is left out.
C14_EnumerateSkipsFailures ==
    (e_fn = "piv_enumerate" /\ e_rdr >= 1) =>
        /\ e_pc = "loop" => e_rv = ""
        /\ e_pc = "ret" =>
            /\ e_rv = "OK"
            /\ Len(e_seen) = e_n
            /\ {e_out[i].rdr : i \in 1..Len(e_out)} = ReadersOk
            /\ Len(e_out) = Cardinality(ReadersOk)
            /\ \A i \in 1..Len(e_out) :
                  /\ e_out[i].conn /\ ~e_out[i].freed
                  /\ e_out[i].guid = e_seen[e_out[i].rdr].guid
                  /\ e_out[i].nochuid = e_seen[e_out[i].rdr].nochuid

\* the first of two readers failed at an object read, the second is returned
C14_Witness ==
    /\ e_fn = "piv_enumerate" /\ e_pc = "ret" /\ e_n = 2
    /\ e_seen[1].stage = "discov" /\ e_seen[2].stage = "ok"
    /\ Len(e_out) = 1 /\ e_out[1].rdr = 2 /\ e_rv = "OK"

\* the readers visited whose token's GUID starts with the prefix
ReadersMatching ==
    {r \in ReadersOk : PrefixMatches(e_prefix, e_seen[r].guid)}

\* C15: piv_find returns success only together with one live, connected
\* token whose GUID starts with the prefix; it returns NotFoundError when no
\* reader's token matches and DuplicateError when more than one does, for
\* every prefix length 0 .. 16.
C15_FindExactlyOne ==
    (e_fn = "piv_find" /\ e_pc = "ret" /\ e_rdr >= 1) =>
        /\ e_rv = "OK" =>
              /\ Len(e_out) = 1
              /\ ~e_out[1].freed /\ e_out[1].conn
              /\ PrefixMatches(e_prefix, e_out[1].guid)
        /\ ReadersMatching = {} => e_rv = "NotFoundError"
        /\ Cardinality(ReadersMatching) > 1 => e_rv = "DuplicateError"

\* C16: every token piv_enumerate or piv_find returns that has a CHUID has
\* a GUID that is not all-zero, whatever fields the CHUID holds.
C16_GuidNotZero ==
    e_pc = "ret" =>
        \A i \in 1..Len(e_out) :
            (~e_out[i].freed /\ ~e_out[i].nochuid) => e_out[i].guid # Zero16

----------------------------------------------------------------------------
(* One read of the CHUID, Discovery or Key History object                  *)

\* the statuses of ReadSw and two warnings, on which the reply is parsed too
ReadSwAll == ReadSw \cup {SW_WARNING_NO_CHANGE_00 + 130, SW_INCORRECT_PIN + 1}

\* the card's answer to the GET DATA of one read: for the CHUID the reply is
\* a CHUID object, for the others only whether the reply parses matters
ReadInputs ==
    {[obj |-> "chuid", r |-> r, c |-> c] :
        r \in {x \in ChainResults(ReadSwAll) : ~x.io /\ ReadParsed(x.sw)},
        c \in ChuidContents}
    \cup {[obj |-> "chuid", r |-> r, c |-> NoContent] :
        r \in {x \in ChainResults(ReadSwAll) : x.io \/ ~ReadParsed(x.sw)}}
    \cup {[obj |-> o, r |-> r, c |-> c] :
        o \in {"discov", "keyhist"},
        r \in {x \in ChainResults(ReadSwAll) : ~x.io /\ ReadParsed(x.sw)},
        c \in {x \in ChuidContents : x.guid = <<>> /\ x.chuuid = <<>>
                                        /\ x.fascn_len = 0}}
    \cup {[obj |-> o, r |-> r, c |-> NoContent] :
        o \in {"discov", "keyhist"},
        r \in {x \in ChainResults(ReadSwAll) : x.io \/ ~ReadParsed(x.sw)}}

InitRead ==
    /\ TokInit /\ ChainInit /\ PinInit /\ EnumInit /\ CertInit /\ BoxInit
    /\ RestInit
    /\ rd_in \in ReadInputs
    /\ rd_out = NoRead

read_chuid ==
    /\ rd_in.obj = "chuid" /\ rd_out = NoRead
    /\ rd_out' = piv_read_chuid(rd_in.r, rd_in.c)
    /\ UNCHANGED <<rd_in, exceptRead>>

read_discov ==
    /\ rd_in.obj = "discov" /\ rd_out = NoRead
    /\ rd_out' = [err |-> piv_read_discov(rd_in.r, rd_in.c.parse), guid |-> <<>>]
    /\ UNCHANGED <<rd_in, exceptRead>>

read_keyhist ==
    /\ rd_in.obj = "keyhist" /\ rd_out = NoRead
    /\ rd_out' = [err |-> piv_read_keyhist(rd_in.r, rd_in.c.parse), guid |-> <<>>]
    /\ UNCHANGED <<rd_in, exceptRead>>

NextRead == read_chuid \/ read_discov \/ read_keyhist

SpecRead == InitRead /\ [][NextRead]_vars

\* the read returned and the card had answered with status sw
ReadAnswered(sw) == rd_out # NoRead /\ ~rd_in.r.io /\ rd_in.r.sw = sw

----------------------------------------------------------------------------
(* piv_force_slot, piv_read_cert, piv_read_all_certs                        *)

errf_caused_by(e, name) == e.err = name \/ e.cause = name

\* status words answered to the GET DATA of piv_read_cert
CertSw == {SW_NO_ERROR, SW_FILE_NOT_FOUND, SW_SECURITY_STATUS_NOT_SATISFIED,
           SW_FUNC_NOT_SUPPORTED, SW_WRONG_DATA, SW_INCORRECT_P1P2}

\* the card's answer to one piv_read_cert: the chain call's outcome, what the
\* reply holds ("empty": no bytes, "garbage": does not parse as a
\* certificate object, "badkey": a certificate whose key PIV has no
\* algorithm for, "cert": a usable certificate) and the PIN policy of the
\* YubiKey metadata ("none": no metadata)
CertIn ==
    {[r |-> r, body |-> "empty", md |-> "none"] :
        r \in ChainResults(CertSw \ {SW_NO_ERROR})}
    \cup {[r |-> OkRes, body |-> b, md |-> "none"] :
        b \in {"empty", "garbage", "badkey"}}
    \cup {[r |-> OkRes, body |-> "cert", md |-> m] :
        m \in {"none", "once", "never"}}

\* piv_read_cert, lines 3220-3232: whether the PIN flag is or-ed into ps_auth;
\* ps_slot is the entry's slot number before slotid is stored in it
CertSetsPin(ps_slot) ==
    ~(ps_slot = PIV_SLOT_CARD_AUTH \/ ps_slot = PIV_SLOT_YK_ATTESTATION)

\* ykpiv_get_metadata: the PIN policy sets or clears the PIN flag
MetadataPin(md, pin) ==
    IF md = "once" THEN TRUE ELSE IF md = "never" THEN FALSE ELSE pin

\* piv_read_cert for one of the slots of SlotIds: the error returned and the
\* slot list afterwards
piv_read_cert(slots, slotid, in) ==
    IF in.r.io
    THEN [res |-> [err |-> "IOError", cause |-> "PCSCError"], slots |-> slots]
    ELSE IF ReadParsed(in.r.sw)
    THEN IF in.body = "empty"
         THEN [res |-> [err |-> "InvalidDataError", cause |-> "APDUError"],
               slots |-> slots]
         ELSE IF in.body = "garbage"
         THEN [res |-> [err |-> "InvalidDataError", cause |-> "PIVTagError"],
               slots |-> slots]
         ELSE
            LET pc == slots[slotid]
                set == [present |-> TRUE, ps_slot |-> slotid,
                        pin |-> pc.pin \/ CertSetsPin(pc.ps_slot)]
            IN  IF in.body = "badkey"
                THEN [res |-> [err |-> "InvalidDataError",
                               cause |-> "BadAlgorithmError"],
                      slots |-> [slots EXCEPT ![slotid] = set]]
                ELSE [res |-> CertOK,
                      slots |-> [slots EXCEPT ![slotid] =
                          [set EXCEPT !.pin = MetadataPin(in.md, set.pin)]]]
    ELSE IF in.r.sw = SW_FILE_NOT_FOUND
    THEN [res |-> [err |-> "NotFoundError", cause |-> "APDUError"],
          slots |-> slots]
    ELSE IF in.r.sw = SW_SECURITY_STATUS_NOT_SATISFIED
    THEN [res |-> [err |-> "PermissionError", cause |-> "APDUError"],
          slots |-> slots]
    ELSE IF in.r.sw = SW_FUNC_NOT_SUPPORTED \/ in.r.sw = SW_WRONG_DATA
    THEN [res |-> [err |-> "NotSupportedError", cause |-> "APDUError"],
          slots |-> slots]
    ELSE [res |-> [err |-> "APDUError", cause |-> ""], slots |-> slots]

read_all_aborts_on_Mut(e) ==
    /\ e.err # "OK"
    /\ ~errf_caused_by(e, "NotFoundError")
    /\ ~errf_caused_by(e, "NotSupportedError")
read_all_aborts_on(e) ==
    /\ e.err # "OK"
    /\ ~errf_caused_by(e, "NotFoundError")
    /\ ~errf_caused_by(e, "PermissionError")
    /\ ~errf_caused_by(e, "NotSupportedError")

\* the slots piv_read_all_certs reads, in order
ScanSlot(i) ==
    CASE i = 1 -> PIV_SLOT_9E
      [] i = 2 -> PIV_SLOT_9A
      [] i = 3 -> PIV_SLOT_9C
      [] i = 4 -> PIV_SLOT_9D
      [] OTHER -> PIV_SLOT_RETIRED_1 + (i - 5)

\* whether piv_read_all_certs returns the error e of its i-th read
ScanAborts(i, e) ==
    IF i <= 4 THEN read_all_aborts_on(e)
    ELSE read_all_aborts_on(e) /\ ~errf_caused_by(e, "APDUError")

TokInitIn(intxn) ==
    /\ pt_intxn = intxn /\ pt_reset = FALSE /\ aborted = FALSE
    /\ t_pc = "idle"
    /\ nBeginTxn = 0 /\ nResetSeen = 0 /\ nReconnect = 0 /\ nReconnectOk = 0
    /\ lastOp = "" /\ lastErr = "" /\ lastDisp = "none" /\ lastRv = ""
    /\ lastRetries = NoRetries /\ lastApdus = <<>>
    /\ txOutside = FALSE /\ heldTxn = intxn /\ txnHist = {}

\* a token whose Key History object reported hist retired slots, inside or
\* outside a transaction
InitCert ==
    /\ \E intxn \in BOOLEAN : TokInitIn(intxn)
    /\ ChainInit /\ PinInit /\ EnumInit /\ ReadInit /\ BoxInit /\ RestInit
    /\ pt_slots = [i \in SlotIds |-> NoSlot]
    /\ pt_hist_oncard \in 0..MaxHist
    /\ pt_did_read_all = FALSE
    /\ rc_last = NoCertCall
    /\ ra_pc = 0
    /\ ra_rv = NoErr

force_slot(slotid) ==
    /\ TokIdle /\ ra_pc = 0
    /\ pt_slots' = [pt_slots EXCEPT ![slotid] =
                       [@ EXCEPT !.present = TRUE, !.ps_slot = slotid]]
    /\ UNCHANGED <<pt_hist_oncard, pt_did_read_all, rc_last, ra_pc, ra_rv>>
    /\ UNCHANGED exceptCert

\* VERIFY(pt_intxn == B_TRUE) at the head of piv_read_cert and
\* piv_read_all_certs
cert_abort ==
    /\ TokIdle /\ ra_pc = 0 /\ ~pt_intxn
    /\ Abort("piv_read_cert", <<>>)
    /\ UNCHANGED <<chainVars, auxVars>>

\* a call of piv_read_cert that is not made by piv_read_all_certs
read_cert(slotid, in) ==
    /\ TokIdle /\ ra_pc = 0 /\ pt_intxn
    /\ LET out == piv_read_cert(pt_slots, slotid, in) IN
        /\ pt_slots' = out.slots
        /\ rc_last' = [slot |-> slotid, existed |-> pt_slots[slotid].present,
                       md |-> in.md, scan |-> FALSE, res |-> out.res]
    /\ UNCHANGED <<pt_hist_oncard, pt_did_read_all, ra_pc, ra_rv>>
    /\ UNCHANGED exceptCert

\* entry of piv_read_all_certs
read_all_begin ==
    /\ TokIdle /\ ra_pc = 0 /\ pt_intxn
    /\ ra_pc' = 1
    /\ ra_rv' = NoErr
    /\ UNCHANGED <<pt_slots, pt_hist_oncard, pt_did_read_all, rc_last>>
    /\ UNCHANGED exceptCert

\* one piv_read_cert of piv_read_all_certs and what follows it: the return
\* of its error, the next slot, or the end of the scan
read_all_slot(in) ==
    /\ ~aborted /\ ra_pc > 0
    /\ LET slotid == ScanSlot(ra_pc)
           out == piv_read_cert(pt_slots, slotid, in)
       IN
        /\ pt_slots' = out.slots
        /\ rc_last' = [slot |-> slotid, existed |-> pt_slots[slotid].present,
                       md |-> in.md, scan |-> TRUE, res |-> out.res]
        /\ IF ScanAborts(ra_pc, out.res)
           THEN /\ ra_pc' = 0
                /\ ra_rv' = out.res
                /\ UNCHANGED pt_did_read_all
           ELSE IF ra_pc < 4 + pt_hist_oncard
           THEN /\ ra_pc' = ra_pc + 1
                /\ UNCHANGED <<ra_rv, pt_did_read_all>>
           ELSE /\ ra_pc' = 0
                /\ ra_rv' = CertOK
                /\ pt_did_read_all' = TRUE
    /\ UNCHANGED pt_hist_oncard
    /\ UNCHANGED exceptCert

\* calls of piv_force_slot and piv_read_cert
NextCert ==
    \/ \E slotid \in SlotIds : force_slot(slotid)
    \/ cert_abort
    \/ \E slotid \in SlotIds, in \in CertIn : read_cert(slotid, in)

SpecCert == InitCert /\ [][NextCert]_vars

\* calls of piv_force_slot and piv_read_all_certs
NextReadAll ==
    \/ \E slotid \in SlotIds : force_slot(slotid)
    \/ cert_abort
    \/ read_all_begin
    \/ \E in \in CertIn : read_all_slot(in)

SpecReadAll == InitCert /\ [][NextReadAll]_vars

\* C18: after a successful piv_read_cert without YubiKey metadata the slot
\* has the PIN flag exactly when it is not slot 9E.
C18_DefaultPinAuth ==
    (rc_last.res = CertOK /\ rc_last.md = "none") =>
        (pt_slots[rc_last.slot].pin <=> rc_last.slot # PIV_SLOT_9E)

\* the error names piv_read_all_certs is said to absorb
AbsorbedKinds == {"NotFoundError", "PermissionError", "NotSupportedError"}

\* the step is one piv_read_cert of piv_read_all_certs
ScanStep == ra_pc > 0 /\ rc_last'.scan /\ ra_pc' # ra_pc

\* the scan goes on after the step, or ends in success after the last slot
ScanGoesOn ==
    IF ra_pc < 4 + pt_hist_oncard
    THEN ra_pc' = ra_pc + 1 /\ ra_rv' = NoErr
    ELSE ra_pc' = 0 /\ ra_rv' = CertOK /\ pt_did_read_all'

\* the scan ends with the step and returns the slot's error
ScanReturnsError ==
    ra_pc' = 0 /\ ra_rv' = rc_last'.res /\ ra_rv'.err # "OK"
    /\ pt_did_read_all' = pt_did_read_all

\* C19 as stated: a slot's NotFoundError, PermissionError or
\* NotSupportedError is absorbed and any other error is returned, for fixed
\* and retired slots alike.
C19_Original ==
    [][ScanStep =>
        IF rc_last'.res.err \in AbsorbedKinds \cup {"OK"}
        THEN ScanGoesOn
        ELSE ScanReturnsError]_vars

\* C19: a slot's NotFoundError, PermissionError or NotSupportedError is
\* absorbed; for a retired slot so is every error that is or is caused by an
\* APDUError; any other error ends the scan and is returned.
C19_ReadAllAbsorbs ==
    [][ScanStep =>
        IF \/ rc_last'.res.err \in AbsorbedKinds \cup {"OK"}
           \/ /\ rc_last'.slot \in RetiredSlots
              /\ "APDUError" \in {rc_last'.res.err, rc_last'.res.cause}
        THEN ScanGoesOn
        ELSE ScanReturnsError]_vars

\* the scan returned success although a retired slot's read had failed with
\* an unexpected status word
C19_Witness ==
    /\ rc_last.scan /\ rc_last.slot \in RetiredSlots
    /\ rc_last.res.err = "APDUError"
    /\ ra_pc = 0 /\ ra_rv = CertOK /\ pt_did_read_all

----------------------------------------------------------------------------
(* struct piv_ecdh_box: set_data, take_data, seal, open                     *)

\* the longest plaintext
MaxPlainLen == 3

\* the cipher's block size (cipher_blocksize)
BlockSz == 2

\* plaintexts handed to piv_box_set_data
PlainTexts == UNION {[1..n -> {1, 2}] : n \in 0..MaxPlainLen}

\* EC key pairs, named alike on both sides, and a key that is not ECDSA
EcKeys == {"K1", "K2"}
SealKeys == EcKeys \cup {"rsa"}

piv_box_sealed(b) == ~b.pdb_plain.b_data

\* piv_box_take_data, lines 4514-4518: the box after the data was copied out
BoxTakenMut(b) == b
BoxTaken(b) == [b EXCEPT !.pdb_plain = NullBuf, !.live = FALSE]

\* the record of a box operation that returned
BoxOp(op, err, cause, out, before) ==
    [op |-> op, key |-> "", ecdh |-> FALSE, err |-> err, cause |-> cause,
     out |-> out, before |-> before]

\* the same for an operation given a key, with whether its ECDH step
\* succeeded
BoxKeyOp(op, key, ecdh, r, before) ==
    [op |-> op, key |-> key, ecdh |-> ecdh, err |-> r.err, cause |-> r.cause,
     out |-> <<>>, before |-> before]

\* boxderrf: an InvalidDataError wrapped around its cause
boxderrfMut(cause, b) == [err |-> "ArgumentError", cause |-> cause, box |-> b]
boxderrf(cause, b) == [err |-> "InvalidDataError", cause |-> cause, box |-> b]

\* piv_box_set_data; alloc is whether calloc returned a buffer
box_set_data(data, alloc) ==
    /\ TokIdle
    /\ IF box.pdb_plain.b_data
       THEN Abort("piv_box_set_data", <<>>) /\ UNCHANGED boxVars
       ELSE /\ IF alloc
               THEN /\ box' = [box EXCEPT
                               !.pdb_plain = [b_data |-> TRUE, bytes |-> data],
                               !.live = TRUE]
                    /\ bx_last' = BoxOp("set_data", "OK", "", <<>>, NewBox)
               ELSE /\ UNCHANGED box
                    /\ bx_last' = BoxOp("set_data", "NoMemoryError", "", <<>>,
                                        NewBox)
            /\ UNCHANGED tokVars
    /\ UNCHANGED exceptBox

\* piv_box_take_data; alloc is whether calloc_conceal returned a buffer,
\* which it may decline to do for a plaintext of no bytes
box_take_data(alloc) ==
    /\ TokIdle
    /\ alloc \/ Len(box.pdb_plain.bytes) = 0
    /\ IF ~box.pdb_plain.b_data
       THEN /\ bx_last' = BoxOp("take_data", "BoxSealed", "", <<>>, box)
            /\ UNCHANGED <<box, tokVars>>
       ELSE IF ~alloc
       THEN Abort("piv_box_take_data", <<>>) /\ UNCHANGED boxVars
       ELSE /\ bx_last' = BoxOp("take_data", "OK", "", box.pdb_plain.bytes,
                                box)
            /\ box' = BoxTaken(box)
            /\ UNCHANGED tokVars
    /\ UNCHANGED exceptBox

\* piv_box_seal_offline, lines 4953-4962: the plaintext with its PKCS#7
\* padding, 1..blocksz bytes each holding the number of bytes added
SealPaddingMut(len) == (BlockSz - (len % BlockSz)) % BlockSz
SealPadding(len) == BlockSz - (len % BlockSz)
PadPlain(bytes) ==
    bytes \o [i \in 1..SealPadding(Len(bytes)) |-> SealPadding(Len(bytes))]

\* piv_box_seal_offline on box b: "abort", an error, or "OK" with the box
\* afterwards; keygen is whether the ephemeral key could be made and ecdh
\* whether ECDH_compute_key succeeded. The ciphertext stands for the padded
\* buffer it decrypts to under the key of its recipient.
SealOffline(b, pubk, keygen, ecdh) ==
    IF pubk = "rsa"
    THEN [err |-> "ArgumentError", cause |-> "", box |-> b]
    ELSE IF ~keygen
    THEN [err |-> "ArgumentError", cause |-> "sshkey_generate", box |-> b]
    ELSE IF ~ecdh
    THEN [err |-> "ArgumentError", cause |-> "ECDH_compute_key", box |-> b]
    ELSE IF Len(b.pdb_plain.bytes) = 0
    THEN [err |-> "abort", cause |-> "", box |-> b]
    ELSE [err |-> "OK", cause |-> "",
          box |-> [b EXCEPT !.pdb_plain = NullBuf, !.live = FALSE,
                            !.pdb_enc = [b_data |-> TRUE,
                                         bytes |-> PadPlain(b.pdb_plain.bytes),
                                         key |-> pubk, tagok |-> TRUE,
                                         pt |-> b.pdb_plain.bytes]]]

box_seal_offline(pubk, keygen, ecdh) ==
    /\ TokIdle
    /\ LET r == SealOffline(box, pubk, keygen, ecdh) IN
        IF r.err = "abort"
        THEN Abort("piv_box_seal_offline", <<>>) /\ UNCHANGED boxVars
        ELSE /\ box' = r.box
             /\ bx_last' = BoxKeyOp("seal_offline", pubk, ecdh, r, box)
             /\ UNCHANGED tokVars
    /\ UNCHANGED exceptBox

\* piv_box_seal with a slot whose public key is pubk
box_seal(pubk, keygen, ecdh) ==
    /\ TokIdle
    /\ LET r == SealOffline(box, pubk, keygen, ecdh) IN
        IF r.err = "abort"
        THEN Abort("piv_box_seal", <<>>) /\ UNCHANGED boxVars
        ELSE /\ box' = IF r.err = "OK"
                       THEN [r.box EXCEPT !.pdb_guidslot_valid = TRUE]
                       ELSE r.box
             /\ bx_last' = BoxKeyOp("seal", pubk, ecdh, r, box)
             /\ UNCHANGED tokVars
    /\ UNCHANGED exceptBox

\* the padding checks of the two opens, lines 4666-4675 and 4798-4807, on
\* the decrypted buffer plain of at least blocksz bytes
PaddingOkMut(plain) ==
    LET padding == plain[Len(plain)] IN
        /\ ~(padding > BlockSz)
        /\ \A i \in (Len(plain) - padding + 1)..Len(plain) : plain[i] = padding
PaddingOk(plain) ==
    LET padding == plain[Len(plain)] IN
        /\ ~(padding < 1 \/ padding > BlockSz)
        /\ \A i \in (Len(plain) - padding + 1)..Len(plain) : plain[i] = padding

\* reallen, the length installed as b_len
RealLen(plain) == Len(plain) - plain[Len(plain)]

\* the part piv_box_open_offline and piv_box_open share once the ECDH secret
\* for key privk is there: the length check, the decryption, which fails
\* when the tag does not verify (another key than the recipient's, or a
\* ciphertext that was altered), and the padding check; the plaintext buffer
\* is replaced only when all pass
OpenWith(b, privk) ==
    IF Len(b.pdb_enc.bytes) < BlockSz
    THEN boxderrf("LengthError", b)
    ELSE IF b.pdb_enc.key # privk \/ ~b.pdb_enc.tagok
    THEN boxderrf("cipher_crypt", b)
    ELSE IF ~PaddingOk(b.pdb_enc.bytes)
    THEN boxderrf("PaddingError", b)
    ELSE [err |-> "OK", cause |-> "",
          box |-> [b EXCEPT
                     !.pdb_plain = [b_data |-> TRUE,
                                    bytes |-> SubSeq(b.pdb_enc.bytes, 1,
                                                  RealLen(b.pdb_enc.bytes))],
                     !.live = TRUE]]

\* piv_box_open_offline; ecdh is whether ECDH_compute_key succeeded
box_open_offline(privk, ecdh) ==
    /\ TokIdle
    /\ IF ~box.pdb_enc.b_data
       THEN Abort("piv_box_open_offline", <<>>) /\ UNCHANGED boxVars
       ELSE LET r == IF ecdh THEN OpenWith(box, privk)
                     ELSE boxderrf("ECDH_compute_key", box)
            IN  /\ box' = r.box
                /\ bx_last' = BoxKeyOp("open_offline", privk, ecdh, r, box)
                /\ UNCHANGED tokVars
    /\ UNCHANGED exceptBox

\* piv_box_open with a slot holding key privk; ecdh is whether piv_ecdh
\* succeeded
box_open(privk, ecdh) ==
    /\ TokIdle
    /\ IF ~box.pdb_enc.b_data
       THEN Abort("piv_box_open", <<>>) /\ UNCHANGED boxVars
       ELSE LET r == IF ecdh THEN OpenWith(box, privk)
                     ELSE [err |-> "BoxKeyError", cause |-> "piv_ecdh",
                           box |-> box]
            IN  /\ box' = r.box
                /\ bx_last' = BoxKeyOp("open", privk, ecdh, r, box)
                /\ UNCHANGED tokVars
    /\ UNCHANGED exceptBox

NextBox ==
    \/ \E data \in PlainTexts, alloc \in BOOLEAN : box_set_data(data, alloc)
    \/ \E alloc \in BOOLEAN : box_take_data(alloc)
    \/ \E pubk \in SealKeys, keygen \in BOOLEAN, ecdh \in BOOLEAN :
          box_seal_offline(pubk, keygen, ecdh)
    \/ \E pubk \in SealKeys, keygen \in BOOLEAN, ecdh \in BOOLEAN :
          box_seal(pubk, keygen, ecdh)
    \/ \E privk \in EcKeys, ecdh \in BOOLEAN : box_open_offline(privk, ecdh)
    \/ \E privk \in EcKeys, ecdh \in BOOLEAN : box_open(privk, ecdh)

SpecBox == Init /\ [][NextBox]_vars

\* buffers a ciphertext made elsewhere may decrypt to
DecBufs ==
    UNION {[1..n -> 0..(BlockSz + 1)] : n \in (BlockSz - 1)..(BlockSz + 1)}

\* a box as piv_box_from_binary returns it: sealed, with a ciphertext
InitBoxOpen ==
    /\ TokInit /\ ChainInit /\ PinInit /\ EnumInit /\ ReadInit /\ CertInit
    /\ RestInit
    /\ \E buf \in DecBufs, k \in EcKeys, t \in BOOLEAN, g \in BOOLEAN :
          box = [NewBox EXCEPT !.pdb_enc = [b_data |-> TRUE, bytes |-> buf,
                                            key |-> k, tagok |-> t,
                                            pt |-> <<>>],
                               !.pdb_guidslot_valid = g]
    /\ bx_last = NoBoxOp

\* opening a decoded box and taking its data
NextBoxOpen ==
    \/ \E alloc \in BOOLEAN : box_take_data(alloc)
    \/ \E privk \in EcKeys, ecdh \in BOOLEAN : box_open_offline(privk, ecdh)
    \/ \E privk \in EcKeys, ecdh \in BOOLEAN : box_open(privk, ecdh)

SpecBoxOpen == InitBoxOpen /\ [][NextBoxOpen]_vars

\* C20: the box is sealed exactly when it holds no allocated plaintext
\* buffer; a successful seal leaves it sealed, a successful open leaves it
\* unsealed, piv_box_take_data on an unsealed box returns the plaintext and
\* leaves the box sealed, and on a sealed box returns an error and changes
\* nothing.
C20_BoxSealedLifecycle ==
    /\ piv_box_sealed(box) <=> ~box.live
    /\ (bx_last.op \in {"seal", "seal_offline"} /\ bx_last.err = "OK") =>
          piv_box_sealed(box)
    /\ (bx_last.op \in {"open", "open_offline"} /\ bx_last.err = "OK") =>
          ~piv_box_sealed(box)
    /\ bx_last.op = "take_data" =>
          IF piv_box_sealed(bx_last.before)
          THEN bx_last.err # "OK" /\ box = bx_last.before
          ELSE /\ bx_last.err = "OK"
               /\ bx_last.out = bx_last.before.pdb_plain.bytes
               /\ piv_box_sealed(box)

\* the plaintext of a box that was sealed and opened again was taken
C20_Witness ==
    /\ bx_last.op = "take_data" /\ bx_last.err = "OK"
    /\ bx_last.before.pdb_enc.b_data
    /\ PadPlain(bx_last.out) = bx_last.before.pdb_enc.bytes
    /\ Len(bx_last.out) > 0
    /\ piv_box_sealed(box)

\* the last operation was an open whose ECDH step succeeded, with the key
\* the box names as recipient, on a ciphertext whose tag verifies
OpenDecrypted ==
    /\ bx_last.op \in {"open", "open_offline"} /\ bx_last.ecdh
    /\ bx_last.key = bx_last.before.pdb_enc.key
    /\ bx_last.before.pdb_enc.tagok
    /\ Len(bx_last.before.pdb_enc.bytes) >= BlockSz

\* the decrypted buffer fails one of the three padding checks
BadPadding(buf) ==
    LET pad == buf[Len(buf)] IN
        \/ pad = 0
        \/ pad > BlockSz
        \/ \E i \in 1..Len(buf) : i > Len(buf) - pad /\ buf[i] # pad

\* C21: an open rejects a decrypted buffer whose last byte is 0 or exceeds
\* the block size or whose trailing pad bytes do not all equal it, and
\* installs any other buffer with exactly the pad bytes removed.
C21_PaddingCheck ==
    OpenDecrypted =>
        LET buf == bx_last.before.pdb_enc.bytes IN
            IF BadPadding(buf)
            THEN bx_last.err # "OK" /\ box = bx_last.before
            ELSE /\ bx_last.err = "OK"
                 /\ box.pdb_plain.b_data
                 /\ box.pdb_plain.bytes =
                        SubSeq(buf, 1, Len(buf) - buf[Len(buf)])

\* an open rejected a buffer whose pad length is in range but whose pad
\* bytes differ
C21_Witness ==
    /\ OpenDecrypted /\ bx_last.err # "OK"
    /\ bx_last.before.pdb_enc.bytes[Len(bx_last.before.pdb_enc.bytes)]
           \in 1..BlockSz
    /\ piv_box_sealed(box)

\* C22: a successful seal adds 1..blocksize bytes, each equal to their
\* number, to the plaintext, and opening what it made with the recipient's
\* key succeeds and yields exactly the plaintext that was sealed.
C22_SealOpenRoundTrip ==
    /\ (bx_last.op \in {"seal", "seal_offline"} /\ bx_last.err = "OK") =>
          LET pt == bx_last.before.pdb_plain.bytes
              enc == box.pdb_enc.bytes
              added == Len(enc) - Len(pt)
          IN  /\ added \in 1..BlockSz
              /\ SubSeq(enc, 1, Len(pt)) = pt
              /\ \A i \in (Len(pt) + 1)..Len(enc) : enc[i] = added
    /\ (OpenDecrypted /\ bx_last.before.pdb_enc.pt # <<>>) =>
          /\ bx_last.err = "OK"
          /\ box.pdb_plain.b_data
          /\ box.pdb_plain.bytes = bx_last.before.pdb_enc.pt

\* a plaintext of one whole block came back from open_offline
C22_Witness ==
    /\ bx_last.op = "open_offline" /\ bx_last.err = "OK"
    /\ Len(bx_last.before.pdb_enc.pt) = BlockSz
    /\ box.pdb_plain.bytes = bx_last.before.pdb_enc.pt

\* the last operation was an open whose decryption failed on the tag or
\* whose padding check failed
OpenFailedOnData ==
    /\ bx_last.op \in {"open", "open_offline"} /\ bx_last.ecdh
    /\ Len(bx_last.before.pdb_enc.bytes) >= BlockSz
    /\ \/ bx_last.key # bx_last.before.pdb_enc.key
       \/ ~bx_last.before.pdb_enc.tagok
       \/ BadPadding(bx_last.before.pdb_enc.bytes)

-----------------------------------------------------------------------------
\* The binary form of a box: sshbuf_put_piv_box, piv_box_to_binary,
\* sshbuf_get_piv_box, piv_box_from_binary and piv_box_read_old_v1.
\* A buffer is a sequence of bytes; a reader is a position in it.

PIV_BOX_V1 == 1
PIV_BOX_V2 == 2
PIV_BOX_VNEXT == 3

\* the curves of box keys and the names sshkey_curve_nid_to_name gives them
NID_P256 == "prime256v1"
NID_P384 == "secp384r1"
NID_NONE == "none"
sshkey_curve_nid_to_name(nid) == IF nid = NID_P256 THEN <<112, 50>> ELSE <<112, 51>>
sshkey_curve_name_to_nid(name) ==
    IF name = <<112, 50>> THEN NID_P256
    ELSE IF name = <<112, 51>> THEN NID_P384 ELSE NID_NONE

\* an uncompressed point: the octet 4, then as many octets as the curve asks
PointLen(nid) == IF nid = NID_P256 THEN 2 ELSE 3
sshkey_ec_validate_public(nid, pt) == Len(pt) = PointLen(nid) /\ pt[1] = 4

\* ---- writing ----
put_u32(n) == <<(n \div 16777216) % 256, (n \div 65536) % 256, (n \div 256) % 256, n % 256>>
put_string8(str) == <<Len(str)>> \o str
put_string(str) == put_u32(Len(str)) \o str

\* sshbuf_put_piv_box, the flag, the GUID and the slot
put_guidslot_Mut(b) == <<0, 0, 0>>
put_guidslot_NoSlot(b) ==
    IF ~b.pdb_guidslot_valid THEN <<0, 0>>
    ELSE <<1>> \o put_string8(b.pdb_guid) \o <<b.pdb_slot>>
put_guidslot(b) ==
    IF ~b.pdb_guidslot_valid THEN <<0, 0, 0>>
    ELSE <<1>> \o put_string8(b.pdb_guid) \o <<b.pdb_slot>>

sshbuf_put_piv_box(b) ==
    IF b.pdb_pub.type # "ECDSA" \/ b.pdb_ephem_pub.type # "ECDSA"
    THEN [err |-> "ArgumentError", cause |-> "", bytes |-> <<>>]
    ELSE IF b.pdb_pub.ecdsa_nid # b.pdb_ephem_pub.ecdsa_nid
    THEN [err |-> "ArgumentError", cause |-> "", bytes |-> <<>>]
    ELSE [err |-> "OK", cause |-> "", bytes |->
            <<176, 197, b.pdb_version>> \o put_guidslot(b)
            \o put_string8(b.pdb_cipher) \o put_string8(b.pdb_kdf)
            \o (IF b.pdb_version >= PIV_BOX_V2
                THEN put_string8(b.pdb_nonce) ELSE <<>>)
            \o put_string8(sshkey_curve_nid_to_name(b.pdb_pub.ecdsa_nid))
            \o put_string8(b.pdb_pub.pt) \o put_string8(b.pdb_ephem_pub.pt)
            \o put_string8(b.pdb_iv) \o put_string(b.pdb_enc)]

piv_box_to_binary(b) == sshbuf_put_piv_box(b)

\* ---- reading: each getter gives [ok, v, p], p the position after it ----
get_u8(buf, p) ==
    IF p <= Len(buf) THEN [ok |-> TRUE, v |-> buf[p], p |-> p + 1]
    ELSE [ok |-> FALSE, v |-> 0, p |-> p]
get_string8(buf, p) ==
    IF p <= Len(buf) /\ p + buf[p] <= Len(buf)
    THEN [ok |-> TRUE, v |-> SubSeq(buf, p + 1, p + buf[p]), p |-> p + 1 + buf[p]]
    ELSE [ok |-> FALSE, v |-> <<>>, p |-> p]
\* a C string holds no NUL
get_cstring8(buf, p) ==
    LET r == get_string8(buf, p)
    IN IF r.ok /\ \E i \in 1..Len(r.v) : r.v[i] = 0
       THEN [ok |-> FALSE, v |-> <<>>, p |-> p] ELSE r
get_u32(buf, p) ==
    buf[p] * 16777216 + buf[p + 1] * 65536 + buf[p + 2] * 256 + buf[p + 3]
get_string(buf, p) ==
    IF p + 3 <= Len(buf) /\ p + 3 + get_u32(buf, p) <= Len(buf)
    THEN [ok |-> TRUE, v |-> SubSeq(buf, p + 4, p + 3 + get_u32(buf, p)),
          p |-> p + 4 + get_u32(buf, p)]
    ELSE [ok |-> FALSE, v |-> <<>>, p |-> p]
get_cstring(buf, p) ==
    LET r == get_string(buf, p)
    IN IF r.ok /\ \E i \in 1..Len(r.v) : r.v[i] = 0
       THEN [ok |-> FALSE, v |-> <<>>, p |-> p] ELSE r

NoKey == [type |-> "", ecdsa_nid |-> NID_NONE, pt |-> <<>>]
EcKey(nid, pt) == [type |-> "ECDSA", ecdsa_nid |-> nid, pt |-> pt]

\* piv_box_new for the reader, and the calloc of piv_box_read_old_v1
BinBoxNew ==
    [pdb_version |-> PIV_BOX_VNEXT - 1, pdb_guidslot_valid |-> FALSE,
     pdb_guid |-> Zero16, pdb_slot |-> 0, pdb_cipher |-> <<>>,
     pdb_kdf |-> <<>>, pdb_nonce |-> <<>>, pdb_pub |-> NoKey,
     pdb_ephem_pub |-> NoKey, pdb_iv |-> <<>>, pdb_enc |-> <<>>]
BinBoxCalloc == [BinBoxNew EXCEPT !.pdb_version = 0]

BinErr(err, cause) == [err |-> err, cause |-> cause, box |-> <<>>]
boxverrf(cause) == BinErr("NotSupportedError", cause)
BinOk(b) == [err |-> "OK", cause |-> "", box |-> b]

\* sshbuf_get_piv_box from the keys on: two points, the IV, the ciphertext
get_piv_box_keys(buf, p, b, nid) ==
    LET pub == get_string8(buf, p)
        eph == get_string8(buf, pub.p)
        iv == get_string8(buf, eph.p)
        enc == get_string(buf, iv.p)
    IN IF ~pub.ok THEN BinErr("InvalidDataError", "sshbuf_get_eckey8")
       ELSE IF ~sshkey_ec_validate_public(nid, pub.v)
       THEN BinErr("InvalidDataError", "sshkey_ec_validate_public")
       ELSE IF ~eph.ok THEN BinErr("InvalidDataError", "sshbuf_get_eckey8")
       ELSE IF ~sshkey_ec_validate_public(nid, eph.v)
       THEN BinErr("InvalidDataError", "sshkey_ec_validate_public")
       ELSE IF ~iv.ok THEN BinErr("InvalidDataError", "sshbuf_get_string8")
       ELSE IF ~enc.ok THEN BinErr("InvalidDataError", "sshbuf_get_string")
       ELSE BinOk([b EXCEPT !.pdb_pub = EcKey(nid, pub.v),
                            !.pdb_ephem_pub = EcKey(nid, eph.v),
                            !.pdb_iv = iv.v, !.pdb_enc = enc.v])

\* sshbuf_get_piv_box from the cipher name on
get_piv_box_names(buf, p, b) ==
    LET cipher == get_cstring8(buf, p)
        kdf == get_cstring8(buf, cipher.p)
        nonce == IF b.pdb_version >= PIV_BOX_V2 THEN get_string8(buf, kdf.p)
                 ELSE [ok |-> TRUE, v |-> <<>>, p |-> kdf.p]
        tname == get_cstring8(buf, nonce.p)
        nid == sshkey_curve_name_to_nid(tname.v)
    IN IF ~cipher.ok \/ ~kdf.ok
       THEN BinErr("InvalidDataError", "sshbuf_get_cstring8")
       ELSE IF ~nonce.ok THEN BinErr("InvalidDataError", "sshbuf_get_string8")
       ELSE IF ~tname.ok THEN BinErr("InvalidDataError", "sshbuf_get_cstring8")
       ELSE IF nid = NID_NONE THEN boxverrf("CurveError")
       ELSE get_piv_box_keys(buf, tname.p,
                [b EXCEPT !.pdb_cipher = cipher.v, !.pdb_kdf = kdf.v,
                          !.pdb_nonce = nonce.v], nid)

sshbuf_get_piv_box(buf) ==
    LET m0 == get_u8(buf, 1)
        m1 == get_u8(buf, m0.p)
        ver == get_u8(buf, m1.p)
        flag == get_u8(buf, ver.p)
        guid == get_string8(buf, flag.p)
        slot == get_u8(buf, guid.p)
        valid == flag.v # 0
    IN IF ~m0.ok \/ ~m1.ok THEN BinErr("InvalidDataError", "sshbuf_get_u8")
       ELSE IF m0.v # 176 /\ m1.v # 197
       THEN BinErr("InvalidDataError", "MagicError")
       ELSE IF ~ver.ok THEN BinErr("InvalidDataError", "sshbuf_get_u8")
       ELSE IF ver.v < PIV_BOX_V1 \/ ver.v >= PIV_BOX_VNEXT
       THEN boxverrf("VersionError")
       ELSE IF ~flag.ok THEN BinErr("InvalidDataError", "sshbuf_get_u8")
       ELSE IF ~guid.ok THEN BinErr("InvalidDataError", "sshbuf_get_string8")
       ELSE IF valid /\ Len(guid.v) # GUID_LEN
       THEN BinErr("InvalidDataError", "LengthError")
       ELSE IF ~slot.ok THEN BinErr("InvalidDataError", "sshbuf_get_u8")
       ELSE get_piv_box_names(buf, slot.p,
                [BinBoxNew EXCEPT !.pdb_version = ver.v,
                                  !.pdb_guidslot_valid = valid,
                                  !.pdb_guid = IF valid THEN guid.v ELSE @,
                                  !.pdb_slot = IF valid THEN slot.v ELSE @])

\* sshkey_fromb on a key blob: the curve name, then the point
sshkey_fromb(blob) ==
    LET tname == get_string(blob, 1)
        pt == get_string(blob, tname.p)
        nid == sshkey_curve_name_to_nid(tname.v)
    IN IF tname.ok /\ pt.ok /\ nid # NID_NONE
          /\ sshkey_ec_validate_public(nid, pt.v)
       THEN [ok |-> TRUE, v |-> EcKey(nid, pt.v)]
       ELSE [ok |-> FALSE, v |-> NoKey]

\* piv_box_read_old_v1: 0 and the box, or an errno
piv_box_read_old_v1(buf) ==
    LET ver == get_u8(buf, 1)
        guid == get_string(buf, ver.p)
        slot == get_u8(buf, guid.p)
        ephb == get_string(buf, slot.p)
        pubb == get_string(buf, ephb.p)
        cipher == get_cstring(buf, pubb.p)
        kdf == get_cstring(buf, cipher.p)
        iv == get_string(buf, kdf.p)
        enc == get_string(buf, iv.p)
    IN IF ~ver.ok THEN [rv |-> "EINVAL", box |-> <<>>]
       ELSE IF ver.v # 1 THEN [rv |-> "ENOTSUP", box |-> <<>>]
       ELSE IF ~guid.ok \/ Len(guid.v) # GUID_LEN \/ ~slot.ok
               \/ ~ephb.ok \/ ~sshkey_fromb(ephb.v).ok
               \/ ~pubb.ok \/ ~sshkey_fromb(pubb.v).ok
               \/ ~cipher.ok \/ ~kdf.ok \/ ~iv.ok \/ ~enc.ok
       THEN [rv |-> "EINVAL", box |-> <<>>]
       ELSE [rv |-> "0", box |->
                [BinBoxCalloc EXCEPT !.pdb_guid = guid.v, !.pdb_slot = slot.v,
                     !.pdb_ephem_pub = sshkey_fromb(ephb.v).v,
                     !.pdb_pub = sshkey_fromb(pubb.v).v,
                     !.pdb_cipher = cipher.v, !.pdb_kdf = kdf.v,
                     !.pdb_iv = iv.v, !.pdb_enc = enc.v]]

piv_box_from_binary(input) ==
    IF Len(input) > 1 /\ input[1] = 1
    THEN LET r == piv_box_read_old_v1(input)
         IN IF r.rv # "0" THEN BinErr("InvalidDataError", "piv_box_read_old_v1")
            ELSE BinOk(r.box)
    ELSE sshbuf_get_piv_box(input)

piv_box_version(b) == b.pdb_version

\* ---- the boxes written and the bytes read ----
BinPoints(nid) == {<<4>> \o [i \in 1..(PointLen(nid) - 1) |-> v] : v \in {7, 8}}
BinKeys ==
    {EcKey(nid, pt) : nid \in {NID_P256}, pt \in BinPoints(NID_P256)}
    \cup {EcKey(NID_P384, <<4, 7, 7>>), [NoKey EXCEPT !.type = "RSA"]}
BinCiphers == {<<99>>, <<99, 104>>}
BinBoxes ==
    {[pdb_version |-> ver, pdb_guidslot_valid |-> gs.valid,
      pdb_guid |-> gs.guid, pdb_slot |-> gs.slot, pdb_cipher |-> cipher,
      pdb_kdf |-> <<115>>,
      pdb_nonce |-> IF ver >= PIV_BOX_V2 THEN nonce ELSE <<>>,
      pdb_pub |-> pub, pdb_ephem_pub |-> eph, pdb_iv |-> iv, pdb_enc |-> enc] :
        ver \in {PIV_BOX_V1, PIV_BOX_V2},
        gs \in {[valid |-> FALSE, guid |-> Zero16, slot |-> 0],
                [valid |-> FALSE, guid |-> GuidA, slot |-> PIV_SLOT_9D],
                [valid |-> TRUE, guid |-> GuidA, slot |-> PIV_SLOT_9D],
                [valid |-> TRUE, guid |-> GuidB, slot |-> PIV_SLOT_RETIRED_1],
                [valid |-> TRUE, guid |-> Zero16, slot |-> 0]},
        cipher \in BinCiphers, nonce \in {<<5, 6>>}, pub \in BinKeys,
        eph \in BinKeys, iv \in {<<>>, <<9>>}, enc \in {<<1, 1>>, <<3, 2, 2, 0>>}}

\* the same box in the layout piv_box_read_old_v1 reads
KeyBlob(k) == put_string(sshkey_curve_nid_to_name(k.ecdsa_nid)) \o put_string(k.pt)
OldV1Layout(b) ==
    <<1>> \o put_string(b.pdb_guid) \o <<b.pdb_slot>>
    \o put_string(KeyBlob(b.pdb_ephem_pub)) \o put_string(KeyBlob(b.pdb_pub))
    \o put_string(b.pdb_cipher) \o put_string(b.pdb_kdf)
    \o put_string(b.pdb_iv) \o put_string(b.pdb_enc)

VersionBytes == 0..PIV_BOX_VNEXT
NoDec == [err |-> "", cause |-> "", box |-> <<>>]

InitBin ==
    /\ TokInit /\ ChainInit /\ PinInit /\ EnumInit /\ ReadInit /\ CertInit
    /\ BoxInit /\ FindInit /\ SignInit /\ SlotsInit /\ RunInit
    /\ \E b \in BinBoxes :
        bn = [pc |-> "box", src |-> "", box |-> b, bytes |-> <<>>, dec |-> NoDec]

\* piv_box_to_binary(box, &output, &len)
box_to_binary ==
    /\ bn.pc = "box"
    /\ LET r == piv_box_to_binary(bn.box)
       IN bn' = IF r.err # "OK"
                THEN [bn EXCEPT !.pc = "done", !.src = "none",
                                !.dec = [NoDec EXCEPT !.err = r.err]]
                ELSE [bn EXCEPT !.pc = "bin", !.src = "bin", !.bytes = r.bytes]
    /\ UNCHANGED exceptBin

\* the bytes come back with another version byte
bin_alter(v) ==
    /\ bn.pc = "bin" /\ bn.src = "bin" /\ bn.bytes[3] # v
    /\ bn' = [bn EXCEPT !.src = "altered", !.bytes[3] = v]
    /\ UNCHANGED exceptBin

\* the box was kept in the old layout
bin_old_v1 ==
    /\ bn.pc = "box"
    /\ bn.box.pdb_version = PIV_BOX_V1
    /\ bn.box.pdb_pub.type = "ECDSA" /\ bn.box.pdb_ephem_pub.type = "ECDSA"
    /\ bn' = [bn EXCEPT !.pc = "bin", !.src = "old_v1",
                        !.bytes = OldV1Layout(bn.box)]
    /\ UNCHANGED exceptBin

\* piv_box_from_binary(input, inplen, &box)
box_from_binary ==
    /\ bn.pc = "bin"
    /\ bn' = [bn EXCEPT !.pc = "done", !.dec = piv_box_from_binary(bn.bytes)]
    /\ UNCHANGED exceptBin

\* the bytes come back with other bytes in the place of the magic
MagicBytes == {176, 197, 0}
bin_magic(m0, m1) ==
    /\ bn.pc = "bin" /\ bn.src = "bin"
    /\ <<m0, m1>> # <<176, 197>>
    /\ bn' = [bn EXCEPT !.src = "magic", !.bytes[1] = m0, !.bytes[2] = m1]
    /\ UNCHANGED exceptBin

NextBin ==
    \/ box_to_binary
    \/ \E v \in VersionBytes : bin_alter(v)
    \/ \E m0, m1 \in MagicBytes : bin_magic(m0, m1)
    \/ bin_old_v1
    \/ box_from_binary

SpecBin == InitBin /\ [][NextBin]_vars

\* piv_box_from_binary read what piv_box_to_binary wrote
BinRoundTrip == bn.pc = "done" /\ bn.src = "bin"

\* C24: the box decoded from the output of piv_box_to_binary equals the box
\* written in version, guid_valid, GUID and slot (when guid_valid), cipher
\* name, KDF name, nonce, recipient key, ephemeral key, IV and ciphertext.
C24_BinaryRoundTrip ==
    BinRoundTrip =>
        /\ bn.dec.err = "OK"
        /\ bn.dec.box.pdb_version = bn.box.pdb_version
        /\ bn.dec.box.pdb_guidslot_valid = bn.box.pdb_guidslot_valid
        /\ bn.box.pdb_guidslot_valid =>
            /\ bn.dec.box.pdb_guid = bn.box.pdb_guid
            /\ bn.dec.box.pdb_slot = bn.box.pdb_slot
        /\ bn.dec.box.pdb_cipher = bn.box.pdb_cipher
        /\ bn.dec.box.pdb_kdf = bn.box.pdb_kdf
        /\ bn.dec.box.pdb_nonce = bn.box.pdb_nonce
        /\ bn.dec.box.pdb_pub = bn.box.pdb_pub
        /\ bn.dec.box.pdb_ephem_pub = bn.box.pdb_ephem_pub
        /\ bn.dec.box.pdb_iv = bn.box.pdb_iv
        /\ bn.dec.box.pdb_enc = bn.box.pdb_enc

\* a version 1 box on P-384 that names a token and a slot made the round trip
C24_Witness ==
    /\ BinRoundTrip /\ bn.dec.err = "OK"
    /\ bn.box.pdb_version = PIV_BOX_V1 /\ bn.box.pdb_guidslot_valid
    /\ bn.box.pdb_pub.ecdsa_nid = NID_P384
    /\ bn.dec.box.pdb_guid = GuidB /\ bn.dec.box.pdb_slot = PIV_SLOT_RETIRED_1

\* C25: piv_box_from_binary fails with NotSupportedError on a version byte
\* other than 1 and 2, and every box it returns, the old version 1 layout
\* included, reports a piv_box_version of 1 or 2.
C25_DecoderVersions ==
    bn.pc = "done" =>
        /\ (bn.src = "altered" /\ bn.bytes[3] \notin {PIV_BOX_V1, PIV_BOX_V2})
            => bn.dec.err = "NotSupportedError"
        /\ (bn.src \in {"bin", "altered", "old_v1"} /\ bn.dec.err = "OK")
            => piv_box_version(bn.dec.box) \in {PIV_BOX_V1, PIV_BOX_V2}

\* piv_box_to_binary has written the box
BinWritten == bn.pc \in {"bin", "done"} /\ bn.src = "bin"

\* the bytes of buf from position p on begin with the bytes of str
BytesAt(buf, p, str) ==
    /\ Len(buf) >= p + Len(str) - 1
    /\ SubSeq(buf, p, p + Len(str) - 1) = str

\* C33 as stated: for a box without guid_valid piv_box_to_binary writes the
\* guid_valid byte 0 and a zero-length GUID and goes on with the cipher
\* name, no slot-id byte in between.
C33_Original ==
    (BinWritten /\ ~bn.box.pdb_guidslot_valid) =>
        /\ bn.bytes[4] = 0 /\ bn.bytes[5] = 0
        /\ BytesAt(bn.bytes, 6, put_string8(bn.box.pdb_cipher))

\* C33: the slot-id byte is written for every box. Without guid_valid the
\* encoder writes the guid_valid byte 0, a zero-length GUID and a slot-id
\* byte 0 and then the cipher name; with guid_valid it writes 1, the 16
\* bytes of the GUID behind their length, the slot id and then the cipher
\* name.
C33_SlotByte ==
    BinWritten =>
        IF ~bn.box.pdb_guidslot_valid
        THEN /\ BytesAt(bn.bytes, 4, <<0, 0, 0>>)
             /\ BytesAt(bn.bytes, 7, put_string8(bn.box.pdb_cipher))
        ELSE /\ BytesAt(bn.bytes, 4, <<1, GUID_LEN>> \o bn.box.pdb_guid)
             /\ bn.bytes[6 + GUID_LEN] = bn.box.pdb_slot
             /\ BytesAt(bn.bytes, 7 + GUID_LEN, put_string8(bn.box.pdb_cipher))

\* a box that holds slot 9D but is not guid_valid was written with three
\* zero bytes before the cipher name
C33_Witness ==
    /\ BinWritten /\ ~bn.box.pdb_guidslot_valid
    /\ bn.box.pdb_slot = PIV_SLOT_9D
    /\ BytesAt(bn.bytes, 4, <<0, 0, 0, 2, 99, 104>>)

\* C34: the decoder rejects with a data error every input whose first two
\* bytes are not B0 C5, also when only one of the two is wrong.
C34_MagicRejected ==
    (bn.pc = "done" /\ bn.src = "magic") =>
        bn.dec.err = "InvalidDataError"

\* C36: pt_reset is set only while pt_intxn is set, in every reachable
\* state, and a transaction starts with pt_reset false: the step of
\* piv_txn_begin that sets pt_intxn leaves pt_reset false.
C36_ResetInTxn ==
    /\ [](pt_reset => pt_intxn)
    /\ [][(~pt_intxn /\ pt_intxn') => (~pt_reset /\ ~pt_reset')]_vars

\* a PIN was verified in a transaction that piv_auth_admin had already
\* marked for a reset
C36_Witness ==
    /\ pt_intxn /\ pt_reset /\ ~aborted
    /\ lastOp = "piv_verify_pin" /\ lastErr = "OK"
    /\ "auth_admin_response" \in txnHist

-----------------------------------------------------------------------------
\* piv_box_find_token: the token and slot that can open a box, looked for
\* in a pool of tokens, one token of one loop after the other.

MaxTokens == 2

PIV_SLOT_KEY_MGMT == PIV_SLOT_9D
FindSlots == <<PIV_SLOT_9D, PIV_SLOT_RETIRED_1>>
FindSlotIds == {FindSlots[n] : n \in 1..Len(FindSlots)}
NoKeys == [s \in FindSlotIds |-> ""]

\* A token of the pool: its GUID (zero without a CHUID), the keys of the
\* certificates on the card, the slots read so far (pt_slots, "" not read),
\* and whether the card answers.
FindTokens ==
    {[pt_guid |-> g.guid, pt_nochuid |-> g.nochuid, card |-> card,
      pt_slots |-> IF all THEN card ELSE NoKeys, pt_did_read_all |-> all,
      io |-> io, pt_intxn |-> FALSE] :
        g \in {[guid |-> GuidA, nochuid |-> FALSE],
               [guid |-> Zero16, nochuid |-> TRUE]},
        card \in {(PIV_SLOT_9D :> "K1" @@ PIV_SLOT_RETIRED_1 :> ""),
                  (PIV_SLOT_9D :> "K2" @@ PIV_SLOT_RETIRED_1 :> ""),
                  (PIV_SLOT_9D :> "" @@ PIV_SLOT_RETIRED_1 :> "K1"),
                  (PIV_SLOT_9D :> "K2" @@ PIV_SLOT_RETIRED_1 :> "K1")},
        all \in BOOLEAN, io \in {"OK", "IOError"}}
FindPools == UNION {[1..n -> FindTokens] : n \in 1..MaxTokens}

\* piv_box_new, then piv_box_set_guid and piv_box_set_slot if called
FindBoxNew == [pdb_guidslot_valid |-> FALSE, pdb_guid |-> Zero16,
               pdb_slot |-> 0, pdb_pub |-> "K1"]
piv_box_set_guid(b, guid) ==
    [b EXCEPT !.pdb_guid = guid, !.pdb_guidslot_valid = TRUE]
piv_box_set_slot(b, slot) ==
    [b EXCEPT !.pdb_slot = slot, !.pdb_guidslot_valid = TRUE]
FindBoxes ==
    LET withGuid == {FindBoxNew} \cup
            {piv_box_set_guid(FindBoxNew, g) : g \in {GuidA, GuidB}}
    IN withGuid \cup {piv_box_set_slot(b, sid) : b \in withGuid,
                        sid \in {PIV_SLOT_9D, PIV_SLOT_RETIRED_1, 255}}

\* the slot of pt_slots with this id, 0 for NULL
piv_get_slot(t, slotid) ==
    IF slotid \in FindSlotIds /\ t.pt_slots[slotid] # "" THEN slotid ELSE 0

\* pt_intxn as a successful piv_txn_begin and piv_txn_end leave it
FindTxnBegin(t) == [t EXCEPT !.pt_intxn = TRUE]
FindTxnEnd(t) == [t EXCEPT !.pt_intxn = FALSE]

\* piv_txn_begin, piv_select, piv_read_cert, piv_txn_end on token t; a
\* card that does not answer fails piv_select
FindReadCert(t, slotid) ==
    LET b == FindTxnBegin(t) IN
    IF t.io # "OK" THEN [err |-> t.io, tok |-> FindTxnEnd(b)]
    ELSE IF slotid \notin FindSlotIds
    THEN [err |-> "ArgumentError", tok |-> FindTxnEnd(b)]
    ELSE IF t.card[slotid] = ""
    THEN [err |-> "NotFoundError", tok |-> FindTxnEnd(b)]
    ELSE [err |-> "OK",
          tok |-> FindTxnEnd([b EXCEPT !.pt_slots[slotid] = t.card[slotid]])]

\* piv_txn_begin, piv_select, piv_read_all_certs, piv_txn_end on token t
FindReadAll(t) ==
    LET b == FindTxnBegin(t) IN
    IF t.io # "OK" THEN [err |-> t.io, tok |-> FindTxnEnd(b)]
    ELSE [err |-> "OK",
          tok |-> FindTxnEnd([b EXCEPT !.pt_slots = t.card,
                                       !.pt_did_read_all = TRUE])]

\* the key of a slot is the key of the box
sshkey_equal_public_Mut(a, b) == a # ""
sshkey_equal_public(a, b) == a = b

\* the first slot piv_slot_next comes to whose key is the box's, 0 for none
FindScan(t, pub) ==
    LET hit(n) == sshkey_equal_public(t.pt_slots[FindSlots[n]], pub)
    IN IF \E n \in 1..Len(FindSlots) : hit(n)
       THEN FindSlots[CHOOSE n \in 1..Len(FindSlots) :
                hit(n) /\ \A m \in 1..(n - 1) : ~hit(m)]
       ELSE 0

FindRes(err, stage, tk, slot) ==
    [err |-> err, stage |-> stage, tk |-> tk, slot |-> slot]
FindDone(res) == [ft EXCEPT !.pc = "done", !.res = res]

\* a token has the GUID of the box: the bcmp of pt_guid and pdb_guid
GuidMatch(t, b) == t.pt_guid = b.pdb_guid

\* the first lines of piv_box_find_token
find_begin ==
    /\ ft.pc = "start"
    /\ ft' = [ft EXCEPT !.pc = IF ft.box.pdb_guidslot_valid THEN "guid" ELSE "all",
                        !.i = 1]
    /\ UNCHANGED exceptFind

\* one token of the first loop: an exact match on the GUID
find_guid ==
    /\ ft.pc = "guid"
    /\ IF ft.i > Len(ft.toks)
       THEN ft' = [ft EXCEPT !.pc = "slot", !.i = 1,
                    !.slotid = IF ft.box.pdb_slot = 0 \/ ft.box.pdb_slot = 255
                               THEN PIV_SLOT_KEY_MGMT ELSE ft.box.pdb_slot]
       ELSE LET t == ft.toks[ft.i]
                cached == piv_get_slot(t, ft.box.pdb_slot) # 0
                r == IF cached THEN [err |-> "OK", tok |-> t]
                     ELSE FindReadCert(t, ft.box.pdb_slot)
            IN IF ~GuidMatch(t, ft.box) THEN ft' = [ft EXCEPT !.i = ft.i + 1]
               ELSE IF r.err # "OK"
               THEN ft' = FindDone(FindRes(r.err, "guid_read", ft.i, 0))
               ELSE IF ~sshkey_equal_public(r.tok.pt_slots[ft.box.pdb_slot],
                                            ft.box.pdb_pub)
               THEN ft' = [FindDone(FindRes("NotFoundError", "guid", ft.i, 0))
                            EXCEPT !.toks[ft.i] = r.tok]
               ELSE ft' = [FindDone(FindRes("OK", "guid", ft.i, ft.box.pdb_slot))
                            EXCEPT !.toks[ft.i] = r.tok]
    /\ UNCHANGED exceptFind

\* one token of the second loop: the slot of the box, or 9D, on every token
find_slot ==
    /\ ft.pc = "slot"
    /\ IF ft.i > Len(ft.toks) THEN ft' = [ft EXCEPT !.pc = "all", !.i = 1]
       ELSE LET t == ft.toks[ft.i]
                cached == piv_get_slot(t, ft.slotid) # 0
                r == IF cached THEN [err |-> "OK", tok |-> t]
                     ELSE FindReadCert(t, ft.slotid)
            IN IF r.err # "OK" THEN ft' = [ft EXCEPT !.i = ft.i + 1]
               ELSE IF sshkey_equal_public(r.tok.pt_slots[ft.slotid],
                                           ft.box.pdb_pub)
               THEN ft' = [FindDone(FindRes("OK", "slot", ft.i, ft.slotid))
                            EXCEPT !.toks[ft.i] = r.tok]
               ELSE ft' = [ft EXCEPT !.i = ft.i + 1, !.toks[ft.i] = r.tok]
    /\ UNCHANGED exceptFind

\* one token of the last loop: every slot of every token
find_all ==
    /\ ft.pc = "all"
    /\ IF ft.i > Len(ft.toks)
       THEN ft' = FindDone(FindRes("NotFoundError", "all", 0, 0))
       ELSE LET t == ft.toks[ft.i]
                r == IF t.pt_did_read_all THEN [err |-> "OK", tok |-> t]
                     ELSE FindReadAll(t)
                s == FindScan(r.tok, ft.box.pdb_pub)
            IN IF r.err # "OK" THEN ft' = [ft EXCEPT !.i = ft.i + 1]
               ELSE IF s # 0
               THEN ft' = [FindDone(FindRes("OK", "all", ft.i, s))
                            EXCEPT !.toks[ft.i] = r.tok]
               ELSE ft' = [ft EXCEPT !.i = ft.i + 1, !.toks[ft.i] = r.tok]
    /\ UNCHANGED exceptFind

InitBoxFind ==
    /\ TokInit /\ ChainInit /\ PinInit /\ EnumInit /\ ReadInit /\ CertInit
    /\ BoxInit /\ BinInit /\ SignInit /\ SlotsInit /\ RunInit
    /\ \E toks \in FindPools, b \in FindBoxes :
        ft = [pc |-> "start", i |-> 0, slotid |-> 0, pool |-> toks,
              toks |-> toks, box |-> b,
              res |-> FindRes("", "", 0, 0)]

NextBoxFind == find_begin \/ find_guid \/ find_slot \/ find_all

SpecBoxFind == InitBoxFind /\ [][NextBoxFind]_vars

\* the key of some certificate on some card of the pool is the box's
FindSomeMatch ==
    \E n \in 1..Len(ft.toks), s \in FindSlotIds :
        ft.toks[n].card[s] = ft.box.pdb_pub

\* the token and slot handed back hold the key of the box
FindPairMatches ==
    /\ ft.res.tk \in 1..Len(ft.toks) /\ ft.res.slot \in FindSlotIds
    /\ ft.toks[ft.res.tk].pt_slots[ft.res.slot] = ft.box.pdb_pub
    /\ ft.toks[ft.res.tk].card[ft.res.slot] = ft.box.pdb_pub

\* C26 as stated: success only with a matching pair of the pool, and
\* NotFoundError whenever no slot of any token matches.
C26_Original ==
    ft.pc = "done" =>
        /\ ft.res.err = "OK" => FindPairMatches
        /\ ~FindSomeMatch => ft.res.err = "NotFoundError"

\* C26: piv_box_find_token returns success only with a token of the pool and
\* a slot of it whose public key is the box's, whichever loop found it; when
\* no slot of any token matches it returns NotFoundError, or the error of
\* opening or reading the token that has the GUID of the box.
C26_FindToken ==
    ft.pc = "done" =>
        /\ ft.res.err = "OK" =>
            /\ FindPairMatches
            /\ ft.res.stage \in {"guid", "slot", "all"}
        /\ ~FindSomeMatch =>
            \/ ft.res.err = "NotFoundError"
            \/ /\ ft.res.stage = "guid_read"
               /\ ft.res.err \in {"IOError", "ArgumentError"}
               /\ ft.box.pdb_guidslot_valid
               /\ GuidMatch(ft.toks[ft.res.tk], ft.box)

\* the last loop found the box's key in a retired slot of the second token
C26_Witness ==
    /\ ft.pc = "done" /\ ft.res.err = "OK" /\ ft.res.stage = "all"
    /\ ft.res.tk = 2 /\ ft.res.slot = PIV_SLOT_RETIRED_1
    /\ ft.box.pdb_guidslot_valid

\* the first loop decided the call on token ft.res.tk
FindByGuid == ft.pc = "done" /\ ft.res.stage \in {"guid", "guid_read"}

\* C27: with a guid_valid box and a token that has the box's GUID the slot
\* of the box is read if it is not cached and the keys are compared, a
\* mismatch returning NotFoundError with no other token probed; and only a
\* token that has a GUID, equal to the box's, is taken for a GUID match.
C27_GuidFirst ==
    FindByGuid =>
        /\ ft.box.pdb_guidslot_valid
        /\ ft.toks[ft.res.tk].pt_guid = ft.box.pdb_guid
        /\ ~ft.toks[ft.res.tk].pt_nochuid
        /\ ft.res.stage = "guid" =>
            /\ ft.toks[ft.res.tk].pt_slots[ft.box.pdb_slot]
                = ft.toks[ft.res.tk].card[ft.box.pdb_slot]
            /\ ft.res.err = "OK" <=>
                ft.toks[ft.res.tk].pt_slots[ft.box.pdb_slot] = ft.box.pdb_pub
            /\ ft.res.err # "OK" => ft.res.err = "NotFoundError"
            /\ ft.pool[ft.res.tk].pt_slots[ft.box.pdb_slot] = "" =>
                ft.pool[ft.res.tk].io = "OK"
            /\ \A n \in 1..Len(ft.toks) :
                n # ft.res.tk => ft.toks[n] = ft.pool[n]

\* C39: when piv_enumerate, piv_find or piv_box_find_token has returned,
\* no token it touched holds a reader transaction, and every token it
\* returned has pt_intxn false.
C39_TxnClosed ==
    /\ e_pc = "ret" =>
        /\ \A r \in 1..Len(e_seen) : ~e_seen[r].intxn
        /\ \A i \in 1..Len(e_out) : ~e_out[i].intxn
    /\ ft.pc = "done" =>
        \A n \in 1..Len(ft.toks) : ~ft.toks[n].pt_intxn

\* the same for the tokens that are still allocated when the call returns
TxnClosedLive ==
    /\ e_pc = "ret" =>
        /\ \A r \in 1..Len(e_seen) : ~e_seen[r].intxn
        /\ \A i \in 1..Len(e_out) : ~e_out[i].freed => ~e_out[i].intxn
    /\ ft.pc = "done" =>
        \A n \in 1..Len(ft.toks) : ~ft.toks[n].pt_intxn

-----------------------------------------------------------------------------
\* piv_sign: the hash and the algorithm byte chosen for a slot, the card
\* operation (piv_sign_prehash) and the slot's algorithm after the call.

SlotAlgs == {"RSA1024", "RSA2048", "ECCP256", "ECCP384", "3DES"}
CardHashAlgs == {"ECCP256_SHA1", "ECCP256_SHA256", "ECCP384_SHA1",
                 "ECCP384_SHA256", "ECCP384_SHA384"}
\* "OTHER" is a value of *hashalgo that asks for none of the four
HashAlgos == {"SHA1", "SHA256", "SHA384", "SHA512", "OTHER"}
\* what piv_sign_prehash returns
PrehashErrs == {"OK", "IOError", "PermissionError", "NotSupportedError",
                "APDUError"}

\* case PIV_ALG_RSA1024: the digest for the request in *hashalgo
Rsa1024HashMut(hashalgo) == IF hashalgo = "SHA1" THEN "SHA1" ELSE "SHA384"
Rsa1024Hash(hashalgo) == IF hashalgo = "SHA1" THEN "SHA1" ELSE "SHA256"

\* [err, cardhash, ps_alg, oldalg, hashalgo, dglen]: the switch on
\* slot->ps_alg; dglen is the length ssh_digest_final is asked to write.
\* oldalg is written only with ps_alg; "unset" stands for the
\* uninitialised variable.
SignPrep(alg, pt_algs, hashalgo) ==
    LET dglen(h) == CASE h = "SHA1" -> 20 [] h = "SHA256" -> 32
                         [] h = "SHA384" -> 48 [] h = "SHA512" -> 64
        plain(h) == [err |-> "OK", cardhash |-> FALSE, ps_alg |-> alg,
                     oldalg |-> "unset", hashalgo |-> h, dglen |-> dglen(h)]
        subst(new, h) == [err |-> "OK", cardhash |-> TRUE, ps_alg |-> new,
                          oldalg |-> alg, hashalgo |-> h, dglen |-> dglen(h)]
    IN CASE alg = "RSA1024" -> plain(Rsa1024Hash(hashalgo))
       [] alg = "RSA2048" ->
            plain(IF hashalgo \in {"SHA1", "SHA512"} THEN hashalgo ELSE "SHA256")
       [] alg = "ECCP256" ->
            LET ch_sha256 == "ECCP256_SHA256" \in pt_algs
                cardhash == ch_sha256 \/ "ECCP256_SHA1" \in pt_algs
            IN IF hashalgo = "SHA1"
               THEN IF cardhash THEN subst("ECCP256_SHA1", "SHA1")
                    ELSE plain("SHA1")
               ELSE IF cardhash /\ ch_sha256
                    THEN subst("ECCP256_SHA256", "SHA256")
                    ELSE IF cardhash THEN subst("ECCP256_SHA1", "SHA1")
                    ELSE plain("SHA256")
       [] alg = "ECCP384" ->
            LET ch_sha384 == "ECCP384_SHA384" \in pt_algs
                ch_sha256 == "ECCP384_SHA256" \in pt_algs
                cardhash == ch_sha384 \/ ch_sha256 \/ "ECCP384_SHA1" \in pt_algs
            IN IF hashalgo = "SHA1"
               THEN IF cardhash THEN subst("ECCP384_SHA1", "SHA1")
                    ELSE plain("SHA1")
               ELSE IF hashalgo = "SHA256"
               THEN IF cardhash /\ ch_sha256
                    THEN subst("ECCP384_SHA256", "SHA256")
                    ELSE IF cardhash THEN subst("ECCP384_SHA1", "SHA1")
                    ELSE plain("SHA256")
               ELSE IF cardhash /\ ch_sha384
                    THEN subst("ECCP384_SHA384", "SHA384")
                    ELSE IF cardhash /\ ch_sha256
                    THEN subst("ECCP384_SHA256", "SHA256")
                    ELSE IF cardhash THEN subst("ECCP384_SHA1", "SHA1")
                    ELSE plain("SHA384")
       [] OTHER ->
            [err |-> "NotSupportedError", cardhash |-> FALSE, ps_alg |-> alg,
             oldalg |-> "unset", hashalgo |-> hashalgo, dglen |-> 0]

\* the last lines of piv_sign: slot->ps_alg after piv_sign_prehash returned
SignRestoreMut(prep, err) ==
    IF prep.cardhash /\ err = "OK" THEN prep.oldalg ELSE prep.ps_alg
SignRestore(prep, err) == IF prep.cardhash THEN prep.oldalg ELSE prep.ps_alg

\* a slot and the algorithms the token lists
InitSign ==
    /\ TokInit /\ ChainInit /\ PinInit /\ EnumInit /\ ReadInit /\ CertInit
    /\ BoxInit /\ BinInit /\ FindInit /\ SlotsInit /\ RunInit
    /\ \E alg \in SlotAlgs, algs \in SUBSET CardHashAlgs :
        sg = [pc |-> "idle", ps_alg |-> alg, before |-> alg,
              call |-> [pt_algs |-> algs, hashalgo |-> "", prep |-> <<>>,
                        p1 |-> ""],
              res |-> ""]

\* piv_sign up to the call of piv_sign_prehash
sign_call(hashalgo) ==
    /\ sg.pc \in {"idle", "done"}
    /\ LET prep == SignPrep(sg.ps_alg, sg.call.pt_algs, hashalgo)
       IN sg' = [sg EXCEPT !.pc = IF prep.err = "OK" THEN "card" ELSE "done",
                           !.before = sg.ps_alg,
                           !.ps_alg = prep.ps_alg,
                           !.call.hashalgo = hashalgo,
                           !.call.prep = prep,
                           !.call.p1 = "",
                           !.res = IF prep.err = "OK" THEN "" ELSE prep.err]
    /\ UNCHANGED exceptSign

\* piv_sign_prehash sends ps_alg as P1 and returns err; piv_sign returns it
sign_card(err) ==
    /\ sg.pc = "card"
    /\ sg' = [sg EXCEPT !.pc = "done", !.call.p1 = sg.ps_alg,
                        !.ps_alg = SignRestore(sg.call.prep, err),
                        !.res = err]
    /\ UNCHANGED exceptSign

NextSign ==
    \/ \E h \in HashAlgos : sign_call(h)
    \/ \E err \in PrehashErrs : sign_card(err)

SpecSign == InitSign /\ [][NextSign]_vars

\* piv_sign returned
SignReturned == sg.pc = "done"

\* C28: on every return of piv_sign, and so on every return after the
\* algorithm was replaced by a card-hash variant, whether the card operation
\* succeeded or failed, the slot's ps_alg is what it was before the call.
C28_SignKeepsAlg ==
    SignReturned =>
        /\ sg.ps_alg = sg.before
        /\ sg.ps_alg \in SlotAlgs

\* a failed card operation with ECCP384_SHA256 sent in place of ECCP384
C28_Witness ==
    /\ SignReturned /\ sg.call.prep.cardhash
    /\ sg.call.p1 = "ECCP384_SHA256" /\ sg.before = "ECCP384"
    /\ sg.res = "PermissionError" /\ sg.ps_alg = "ECCP384"

\* piv_sign reached piv_sign_prehash on a token that lists no card-hash
\* algorithm
SignHostHash ==
    /\ sg.pc \in {"card", "done"} /\ sg.call.prep # <<>>
    /\ sg.call.prep.err = "OK"
    /\ sg.call.pt_algs \cap CardHashAlgs = {}

\* the output length of a digest
DigestLen(h) ==
    CASE h = "SHA1" -> 20 [] h = "SHA256" -> 32 [] h = "SHA384" -> 48
      [] h = "SHA512" -> 64 [] OTHER -> 0

\* C35: on a token without card-hash algorithms piv_sign hashes on the
\* host; with no digest requested *hashalgo becomes SHA-256 for RSA-1024,
\* RSA-2048 and P-256 slots and SHA-384 for P-384 slots, a request for SHA-1
\* is kept for every slot algorithm and one for SHA-512 for RSA-2048, and
\* *hashalgo is always the digest that was applied.
C35_HashSelection ==
    SignHostHash =>
        LET in == sg.call.hashalgo
            out == sg.call.prep.hashalgo
        IN /\ ~sg.call.prep.cardhash
           /\ in = "OTHER" =>
                out = IF sg.before = "ECCP384" THEN "SHA384" ELSE "SHA256"
           /\ in = "SHA1" => out = "SHA1"
           /\ (in = "SHA512" /\ sg.before = "RSA2048") => out = "SHA512"
           /\ out \in HashAlgos \ {"OTHER"}
           /\ sg.call.prep.dglen = DigestLen(out)

\* a P-384 slot signed with no digest asked for: SHA-384 was applied
C35_Witness ==
    /\ SignHostHash /\ sg.pc = "done" /\ sg.res = "OK"
    /\ sg.before = "ECCP384" /\ sg.call.hashalgo = "OTHER"
    /\ sg.call.prep.hashalgo = "SHA384" /\ sg.call.prep.dglen = 48
    /\ sg.call.p1 = "ECCP384"

\* C40: whenever piv_sign replaces the algorithm byte by a card-hash
\* variant, the variant is one the token lists in pt_algs.
C40_SubstAdvertised ==
    (sg.pc \in {"card", "done"} /\ sg.call.prep # <<>>
     /\ sg.call.prep.cardhash) =>
        sg.call.prep.ps_alg \in sg.call.pt_algs

-----------------------------------------------------------------------------
\* The slot list of a token: pt_slots from its head to pt_last_slot, as
\* piv_get_slot, piv_force_slot and piv_read_cert walk and extend it. An
\* entry carries the number of the calloc that made it (ent).

MaxSlotCalls == 4

ListSlotIds == {PIV_SLOT_9A, PIV_SLOT_9D, PIV_SLOT_RETIRED_1}
ListAlgs == {"ECCP256", "RSA2048"}

\* the walk over pt_slots: the place of the entry with this id, 0 for NULL
SlotLookupMut(list, slotid) == 0
SlotLookup(list, slotid) ==
    IF \E i \in 1..Len(list) : list[i].ps_slot = slotid
    THEN CHOOSE i \in 1..Len(list) :
            /\ list[i].ps_slot = slotid
            /\ \A j \in 1..(i - 1) : list[j].ps_slot # slotid
    ELSE 0

\* the list with an entry for slotid: the one found, or a new one at the end
SlotEnsure(list, nalloc, slotid) ==
    IF SlotLookup(list, slotid) # 0
    THEN [list |-> list, at |-> SlotLookup(list, slotid), nalloc |-> nalloc]
    ELSE [list |-> Append(list, [ent |-> nalloc + 1, ps_slot |-> 0,
                                 ps_alg |-> "", cert |-> FALSE]),
          at |-> Len(list) + 1, nalloc |-> nalloc + 1]

\* the ids in the order of the first call that made an entry for each
SeenAfter(seen, slotid) ==
    IF \E i \in 1..Len(seen) : seen[i] = slotid THEN seen
    ELSE Append(seen, slotid)

\* piv_get_slot(tk, slotid)
slot_get(slotid) ==
    /\ sl.n < MaxSlotCalls
    /\ sl' = [sl EXCEPT !.n = sl.n + 1,
                !.last = [op |-> "get", id |-> slotid, alg |-> "",
                          ret |-> SlotLookup(sl.pt_slots, slotid),
                          before |-> sl.pt_slots]]
    /\ UNCHANGED exceptSlots

\* piv_force_slot(tk, slotid, alg)
slot_force(slotid, alg) ==
    /\ sl.n < MaxSlotCalls
    /\ LET e == SlotEnsure(sl.pt_slots, sl.nalloc, slotid)
       IN sl' = [sl EXCEPT !.n = sl.n + 1,
                    !.pt_slots = [e.list EXCEPT ![e.at].ps_slot = slotid,
                                                ![e.at].ps_alg = alg],
                    !.nalloc = e.nalloc,
                    !.seen = SeenAfter(sl.seen, slotid),
                    !.last = [op |-> "force", id |-> slotid, alg |-> alg,
                              ret |-> e.at, before |-> sl.pt_slots]]
    /\ UNCHANGED exceptSlots

\* piv_read_cert(tk, slotid): "none" no certificate came back and the list
\* is not touched, "badkey" a certificate with a key PIV has no algorithm
\* for, else the algorithm of the certificate's key
slot_read(slotid, got) ==
    /\ sl.n < MaxSlotCalls
    /\ IF got = "none"
       THEN sl' = [sl EXCEPT !.n = sl.n + 1,
                    !.last = [op |-> "read", id |-> slotid, alg |-> got,
                              ret |-> 0, before |-> sl.pt_slots]]
       ELSE LET e == SlotEnsure(sl.pt_slots, sl.nalloc, slotid)
            IN sl' = [sl EXCEPT !.n = sl.n + 1,
                    !.pt_slots = [e.list EXCEPT
                        ![e.at].ps_slot = slotid,
                        ![e.at].cert = TRUE,
                        ![e.at].ps_alg = IF got = "badkey" THEN @ ELSE got],
                    !.nalloc = e.nalloc,
                    !.seen = SeenAfter(sl.seen, slotid),
                    !.last = [op |-> "read", id |-> slotid, alg |-> got,
                              ret |-> e.at, before |-> sl.pt_slots]]
    /\ UNCHANGED exceptSlots

NextSlots ==
    \/ \E id \in ListSlotIds : slot_get(id)
    \/ \E id \in ListSlotIds, alg \in ListAlgs : slot_force(id, alg)
    \/ \E id \in ListSlotIds, got \in ListAlgs \cup {"none", "badkey"} :
        slot_read(id, got)

SpecSlots == Init /\ [][NextSlots]_vars

\* the ids of the entries of the list, head first
ListIds(list) == [i \in 1..Len(list) |-> list[i].ps_slot]

\* C32: the slot list holds at most one entry per slot id, in the order of
\* first insertion; piv_force_slot on an id already in the list returns the
\* entry that is there and changes only its algorithm, and piv_get_slot
\* returns the entry of the id, or NULL if no call has made one.
C32_SlotList ==
    /\ ListIds(sl.pt_slots) = sl.seen
    /\ \A i, j \in 1..Len(sl.pt_slots) :
        /\ i # j => sl.pt_slots[i].ps_slot # sl.pt_slots[j].ps_slot
        /\ i < j => sl.pt_slots[i].ent < sl.pt_slots[j].ent
    /\ (sl.last.op = "force"
        /\ \E i \in 1..Len(sl.last.before) :
                sl.last.before[i].ps_slot = sl.last.id) =>
        /\ Len(sl.pt_slots) = Len(sl.last.before)
        /\ sl.last.before[sl.last.ret].ps_slot = sl.last.id
        /\ sl.pt_slots = [sl.last.before EXCEPT
                            ![sl.last.ret].ps_alg = sl.last.alg]
    /\ sl.last.op = "get" =>
        IF \E i \in 1..Len(sl.seen) : sl.seen[i] = sl.last.id
        THEN /\ sl.last.ret \in 1..Len(sl.pt_slots)
             /\ sl.pt_slots[sl.last.ret].ps_slot = sl.last.id
        ELSE sl.last.ret = 0

\* a slot read and then forced is the one entry of the list, its
\* certificate kept and its algorithm replaced
C32_Witness ==
    /\ sl.last.op = "force" /\ sl.last.id = PIV_SLOT_9D
    /\ Len(sl.last.before) = 2 /\ Len(sl.pt_slots) = 2
    /\ sl.last.ret = 1
    /\ sl.last.before[1] = [ent |-> 1, ps_slot |-> PIV_SLOT_9D,
                            ps_alg |-> "ECCP256", cert |-> TRUE]
    /\ sl.pt_slots[1].ps_alg = "RSA2048" /\ sl.pt_slots[1].cert

-----------------------------------------------------------------------------
\* piv_apdu_transceive_chain over reply sequences of any length: the same
\* loops as chain_cmd and chain_resp, with the buffers kept as lengths and
\* offsets only, so that the card may answer as often as it likes and fill
\* the reply buffer.

\* body lengths the card offers: nothing, a full short body, all that fits
RunLens == {0, 255, MAX_APDU_SIZE}

\* recvLength = r->b_size - r->b_offset: the room SCardTransmit may fill
RecvLengthMut(size, off) == size
RecvLength(size, off) == size - off

\* piv_apdu_transceive with the reply stored at b_offset = off; l is the
\* body length the card offers, of which SCardTransmit stores what fits in
\* recvLength less the two status bytes
RunTransceive(c, off, ok, w, l) ==
    LET size == IF c.b_alloc THEN c.b_size ELSE MAX_APDU_SIZE
        at == IF c.b_alloc THEN off ELSE 0
        cap == RecvLength(size, at)
        len == IF l + 2 <= cap THEN l ELSE cap - 2
    IN IF ~ok
       THEN IF c.b_alloc
            THEN [c EXCEPT !.b_off = at, !.rv = "IOError", !.pc = "ret"]
            ELSE [c EXCEPT !.b_off = 0, !.b_len = 0, !.b_size = 0,
                           !.rv = "IOError", !.pc = "ret"]
       ELSE [c EXCEPT !.b_alloc = TRUE, !.b_size = size, !.b_off = at,
                      !.b_len = len, !.a_sw = w,
                      !.recv = [off |-> at, len |-> len]]

\* entry: VERIFY(pt_intxn), rem = a_cmd.b_len
run_call ==
    /\ rn.pc = "call"
    /\ rn' = IF ~VerifyInTxn(pt_intxn)
             THEN [rn EXCEPT !.pc = "ret", !.rv = "abort"]
             ELSE [rn EXCEPT !.pc = "cmd", !.rem = rn.cmd_len]
    /\ UNCHANGED exceptRun

\* one pass of the command loop, entered at its head or at the label again
run_cmd(ok, w, l) ==
    /\ rn.pc \in {"cmd", "again"}
    /\ LET len1 == IF rn.pc = "cmd" THEN FragLen(rn.rem) ELSE rn.cmd_len
           t == RunTransceive([rn EXCEPT !.cmd_len = len1], rn.b_off, ok, w, l)
           st == CmdStatus(w)
       IN rn' = IF ~ok THEN t
                ELSE IF st = "again"
                THEN [t EXCEPT !.a_le = RetryLe(w), !.pc = "again"]
                ELSE IF st = "advance"
                THEN [t EXCEPT !.rem = rn.rem - len1,
                               !.pc = IF rn.rem - len1 > 0 THEN "cmd"
                                      ELSE "resp",
                               !.offset = IF rn.rem - len1 > 0 THEN rn.offset
                                          ELSE t.b_off]
                ELSE [t EXCEPT !.pc = "ret", !.rv = "OK"]
    /\ UNCHANGED exceptRun

\* one pass of the response loop: the offset moves on, the VERIFY, the
\* GET RESPONSE
run_resp(ok, w, l) ==
    /\ rn.pc = "resp"
    /\ MoreToRead(rn.a_sw, rn.b_len)
    /\ LET off == RespAdvance(rn.b_off, rn.b_len)
           c == [rn EXCEPT !.gotok = rn.gotok \/ rn.a_sw = SW_NO_ERROR,
                           !.a_le = GetRespLe(rn.a_sw, rn.a_le),
                           !.b_off = off]
       IN rn' = IF ~(off < rn.b_size)
                THEN [c EXCEPT !.pc = "ret", !.rv = "abort",
                               !.verify = "failed"]
                ELSE RunTransceive([c EXCEPT !.verify = "held"], off, ok, w, l)
    /\ UNCHANGED exceptRun

\* after the response loop
run_finish ==
    /\ rn.pc = "resp"
    /\ ~MoreToRead(rn.a_sw, rn.b_len)
    /\ rn' = [rn EXCEPT !.a_sw = NormalizeSw(rn.gotok, rn.a_sw),
                        !.b_len = rn.b_len + (rn.b_off - rn.offset),
                        !.b_off = rn.offset,
                        !.pc = "ret", !.rv = "OK"]
    /\ UNCHANGED exceptRun

\* a call with a command body of n bytes on a token in a transaction
InitRun ==
    /\ TokInitIn(TRUE)
    /\ ChainInit /\ PinInit /\ EnumInit /\ ReadInit /\ CertInit
    /\ BoxInit /\ BinInit /\ FindInit /\ SignInit /\ SlotsInit
    /\ \E n \in CmdLens : rn = [NoRun EXCEPT !.pc = "call", !.cmd_len = n]

NextRun ==
    \/ run_call
    \/ \E ok \in BOOLEAN, w \in ChainSw, l \in RunLens : run_cmd(ok, w, l)
    \/ \E ok \in BOOLEAN, w \in ChainSw, l \in RunLens : run_resp(ok, w, l)
    \/ run_finish

SpecRun == InitRun /\ [][NextRun]_vars

\* every reader call returns and the function goes on with its next step
SpecRunFair == SpecRun /\ WF_vars(NextRun)

\* C37: piv_apdu_transceive_chain returns to its caller for every sequence
\* of card replies in which each reader call returns.
C37_Terminates == <>(rn.pc = "ret")

\* C38: the reply stored by SCardTransmit, status bytes included, ends
\* within the reply buffer; after every exchange that returned a reply,
\* b_offset plus b_len and the status bytes stay within b_size; and the
\* VERIFY(b_offset < b_size) before a GET RESPONSE never fails.
C38_ReplyBound ==
    /\ rn.recv.off + rn.recv.len + 2 <= rn.b_size \/ ~rn.b_alloc
    /\ (rn.b_alloc /\ rn.rv # "IOError") =>
        rn.b_off + rn.b_len + 2 <= rn.b_size
    /\ rn.verify # "failed"
    /\ rn.rv # "abort"

\* the card kept answering 61xx until the buffer was full to its last two
\* bytes; the VERIFY held and the GET RESPONSE brought an empty body
C38_Witness ==
    /\ rn.pc = "resp" /\ rn.verify = "held"
    /\ rn.b_off = MAX_APDU_SIZE - 2 /\ rn.b_len = 0
    /\ SwHi(rn.a_sw) = SW_BYTES_REMAINING_00

====
